---- MODULE Spec2Model ----
(***************************************************************************)
(* paper-loupe: the paper resolution and relevance-ranking pipeline.       *)
(*                                                                         *)
(*   arxiv_lookup.py   search_with_fallback, search_arxiv_by_title,        *)
(*                     throttled_request                                   *)
(*   llm_analyzer.py   analyze_relevance, parse_relevance_response,        *)
(*                     batch_analyze, get_provider                         *)
(*   paper_store.py    create_dataframe, deduplicate_papers, rank_papers   *)
(*                                                                         *)
(* Strings are sequences of one-character strings, so that split, strip,   *)
(* find and slicing are computed as Python computes them.  Time is counted *)
(* in tenths of a second.  A float is a record [kind, v] with v in         *)
(* hundredths when kind = "finite".                                        *)
(***************************************************************************)
EXTENDS Integers, Sequences, FiniteSets, TLC

VARIABLES
    \* ---- arxiv_lookup.py ----
    driver,      \* who calls throttled_request: "resolve" | "seq" | "threads" | "none"
    title,       \* search_with_fallback argument
    authors,     \* search_with_fallback argument (list of strings)
    service,     \* the external service: arXiv query -> result list
    pc,          \* position inside search_with_fallback / the sequential caller
    calls,       \* the calls made to search_arxiv_by_title, in order
    ret,         \* the return value of search_with_fallback
    now,         \* wall clock (tenths of a second)
    nIssued,     \* operations executed by throttled_request so far
    lastStart,   \* clock when the latest throttled_request was entered
    lastDelay,   \* the delay the latest throttled_request slept
    \* ---- concurrent callers of throttled_request ----
    tpc,         \* per thread: "call" | "sleeping"
    wake,        \* per thread: the clock at which its sleep ends
    tcount,      \* per thread: throttled calls completed
    issuedAt,    \* the clock of every operation executed by a thread, in order
    \* ---- paper_store.py ----
    stage,       \* "input" | "built" | "deduplicated" | "ranked" | "raised" | "none"
    records,     \* the list of paper dictionaries given to create_dataframe
    table,       \* the DataFrame: [columns, rows]
    relevance_scores, \* rank_papers argument: arxiv_id -> score (empty before the call)
    files,       \* the file system: path -> parquet file
    fileOps,     \* the save_dataframe and load_dataframe calls made, with their results
    storeErr,    \* the exception a store function raised ("none" when none)
    \* ---- llm_analyzer.py ----
    amode,       \* "analyze" (one analyze_relevance call) | "batch" | "none"
    papers,      \* batch_analyze argument (analyze_relevance: a list of one paper)
    questions,   \* batch_analyze argument (analyze_relevance: a list of one question)
    modelKey,    \* the model argument
    environment, \* environment variables, config api_keys, installed backends
    repertoire,  \* what the backend may do on a call in this run
    apc,         \* "start" | "loop" | "returned" | "raised"
    bi,          \* index of the current paper in batch_analyze's loop
    bj,          \* index of the current question in batch_analyze's loop
    results,     \* batch_analyze's results: paper_id -> question -> assessment
    token_usage, \* batch_analyze's token_usage
    raised,      \* the exception that ended the call ("none" when none)
    nGetProvider,\* calls of get_provider made
    llmCalls,    \* the provider.analyze calls made, in order: [paper, question, outcome]
    lastResult,  \* the latest value returned by analyze_relevance
    \* ---- cli.py: process ----
    raw_papers,  \* the paper dictionaries parsed from the emails
    lookup,      \* per raw paper: what search_with_fallback returns for it
    pi,          \* raw papers handled by the lookup loop so far
    enriched_papers, \* the papers found on arXiv, with their arXiv fields
    not_found_count, \* the papers not found on arXiv
    ppc          \* "lookup" | "store" | "analyze" | "done" | "none"

resolverVars == <<driver, title, authors, service, pc, calls, ret,
                  now, nIssued, lastStart, lastDelay>>
threadVars == <<tpc, wake, tcount, issuedAt>>
storeVars == <<stage, records, table, relevance_scores, files, fileOps, storeErr>>
analyzerVars == <<amode, papers, questions, modelKey, environment, repertoire,
                  apc, bi, bj, results, token_usage, raised, nGetProvider,
                  llmCalls, lastResult>>
processVars == <<raw_papers, lookup, pi, enriched_papers, not_found_count, ppc>>
vars == <<resolverVars, threadVars, storeVars, analyzerVars, processVars>>

-----------------------------------------------------------------------------
(* Bounds of the model.                                                    *)
MaxTitleWords == 2      \* words in a title
MaxCalls == 4           \* throttled calls made one after another
MaxThreadCalls == 2     \* throttled calls made by each concurrent caller
MaxRecords == 2         \* paper dictionaries given to create_dataframe
MaxPapers == 2          \* papers given to batch_analyze
MaxFileOps == 2         \* save_dataframe and load_dataframe calls in a run
NThreads == 2           \* concurrent callers of throttled_request

-----------------------------------------------------------------------------
(* Python string primitives on sequences of characters.                    *)

UpperChars == <<"A", "B", "C", "D", "E", "F", "G", "H", "I", "J", "K", "L", "M",
                "N", "O", "P", "Q", "R", "S", "T", "U", "V", "W", "X", "Y", "Z">>
LowerChars == <<"a", "b", "c", "d", "e", "f", "g", "h", "i", "j", "k", "l", "m",
                "n", "o", "p", "q", "r", "s", "t", "u", "v", "w", "x", "y", "z">>
DigitChars == {"0", "1", "2", "3", "4", "5", "6", "7", "8", "9"}
Whitespace == {" ", "\t", "\n", "\r"}

\* str.isalnum on one character
IsAlnum(c) ==
    \/ c \in DigitChars
    \/ \E i \in 1..26 : c = UpperChars[i] \/ c = LowerChars[i]

\* str.isspace on one character
IsSpace(c) == c \in Whitespace

\* str.lower
LowerChar(c) ==
    IF \E i \in 1..26 : c = UpperChars[i]
    THEN LowerChars[CHOOSE i \in 1..26 : c = UpperChars[i]]
    ELSE c
Lower(s) == [i \in 1..Len(s) |-> LowerChar(s[i])]

\* str.strip(): leading and trailing whitespace removed
LStrip[s \in Seq(STRING)] ==
    IF s # <<>> /\ IsSpace(Head(s)) THEN LStrip[Tail(s)] ELSE s
RStrip[s \in Seq(STRING)] ==
    IF s # <<>> /\ IsSpace(s[Len(s)]) THEN RStrip[SubSeq(s, 1, Len(s) - 1)] ELSE s
Strip(s) == RStrip[LStrip[s]]

\* str.split(): the maximal runs of non-whitespace characters
RECURSIVE SplitWords(_, _, _)
SplitWords(s, cur, acc) ==
    IF s = <<>>
    THEN IF cur = <<>> THEN acc ELSE Append(acc, cur)
    ELSE IF IsSpace(Head(s))
         THEN SplitWords(Tail(s), <<>>, IF cur = <<>> THEN acc ELSE Append(acc, cur))
         ELSE SplitWords(Tail(s), Append(cur, Head(s)), acc)
Split(s) == SplitWords(s, <<>>, <<>>)

\* s.split(sep)[0]: the text before the first sep (all of s when there is none)
RECURSIVE BeforeFirst(_, _)
BeforeFirst(s, sep) ==
    IF s = <<>> \/ Head(s) = sep THEN <<>> ELSE <<Head(s)>> \o BeforeFirst(Tail(s), sep)

\* sep.join(words)
RECURSIVE Join(_, _)
Join(words, sep) ==
    IF words = <<>> THEN <<>>
    ELSE IF Len(words) = 1 THEN words[1]
    ELSE words[1] \o sep \o Join(Tail(words), sep)

-----------------------------------------------------------------------------
(* arxiv_lookup.py: throttled_request                                      *)

BaseDelay == 10     \* delay = 1.0 + jitter
JitterMax == 2      \* random.uniform(-0.2, 0.2)
MinDelay == 8       \* if delay < 0.8: delay = 0.8

Jitter == (0 - JitterMax)..JitterMax

\* A plausible slip: the base delay is left out and only the jitter is slept.
DelayJitterOnly(jitter) == IF jitter < 0 THEN 0 ELSE jitter

\* delay = 1.0 + jitter, floored at 0.8
Delay(jitter) ==
    IF BaseDelay + jitter < MinDelay THEN MinDelay ELSE BaseDelay + jitter

\* throttled_request(func, ...): sleep(delay), then func is executed.  The clock
\* counts the enforced sleep only, the least time the call can take.
ThrottledRequest(jitter) ==
    /\ lastStart' = now
    /\ lastDelay' = Delay(jitter)
    /\ now' = now + Delay(jitter)
    /\ nIssued' = nIssued + 1

-----------------------------------------------------------------------------
(* arxiv_lookup.py: search_arxiv_by_title and search_with_fallback         *)

DefaultMaxResults == 5

\* common_words
CommonWords ==
    { <<"a">>, <<"a", "n">>, <<"t", "h", "e">>, <<"o", "n">>, <<"o", "f">>,
      <<"f", "o", "r">>, <<"a", "n", "d">>, <<"i", "n">>, <<"t", "o">>,
      <<"w", "i", "t", "h">> }

\* quoted_title = f'"{title}"'
QuotedTitle(t) == <<"\"">> \o t \o <<"\"">>

\* query=f"ti:{title}"
TiQuery(q) == <<"t", "i", ":">> \o q

\* A plausible slip: the split at the comma is left out.
LastNameWhole(first_author) == Strip(first_author)

\* last_name = first_author.split(",")[0].strip()
LastName(first_author) == Strip(BeforeFirst(first_author, ","))

\* clean_word = "".join(c for c in word if c.isalnum() or c.isspace())
CleanWord(word) == SelectSeq(word, LAMBDA c : IsAlnum(c) \/ IsSpace(c))

\* A plausible slip: the word is compared without .lower().
RECURSIVE KeyPhraseLoopCaseSensitive(_, _)
KeyPhraseLoopCaseSensitive(words, key_phrase) ==
    IF words = <<>> THEN key_phrase
    ELSE LET clean_word == CleanWord(Head(words)) IN
         IF clean_word \notin CommonWords
         THEN IF Len(key_phrase) + 1 >= 2
              THEN Append(key_phrase, clean_word)
              ELSE KeyPhraseLoopCaseSensitive(Tail(words), Append(key_phrase, clean_word))
         ELSE KeyPhraseLoopCaseSensitive(Tail(words), key_phrase)

\* the loop over title_words: at most two words, the common words skipped
RECURSIVE KeyPhraseLoop(_, _)
KeyPhraseLoop(words, key_phrase) ==
    IF words = <<>> THEN key_phrase
    ELSE LET clean_word == CleanWord(Head(words)) IN
         IF Lower(clean_word) \notin CommonWords
         THEN IF Len(key_phrase) + 1 >= 2
              THEN Append(key_phrase, clean_word)
              ELSE KeyPhraseLoop(Tail(words), Append(key_phrase, clean_word))
         ELSE KeyPhraseLoop(Tail(words), key_phrase)
KeyPhrase(t) == KeyPhraseLoop(Split(t), <<>>)

\* author_query = f'author:{last_name} AND "{key_phrase_str}"'
AuthorQuery(last_name, key_phrase) ==
    <<"a", "u", "t", "h", "o", "r", ":">> \o last_name
        \o <<" ", "A", "N", "D", " ", "\"">> \o Join(key_phrase, <<" ">>) \o <<"\"">>

\* A plausible slip: an off-by-one in the test of the authors list.
Strategy3AppliesTwoAuthors(t, a) == a # <<>> /\ Len(a) > 1 /\ KeyPhrase(t) # <<>>

\* `if authors and len(authors) > 0` and `if key_phrase`
Strategy3Applies(t, a) == a # <<>> /\ Len(a) > 0 /\ KeyPhrase(t) # <<>>

\* The external service's answer to one query, capped at max_results.
Respond(svc, query, max_results) ==
    IF query \in DOMAIN svc
    THEN SubSeq(svc[query], 1,
                IF Len(svc[query]) < max_results THEN Len(svc[query]) ELSE max_results)
    ELSE <<>>

\* search_arxiv_by_title(q, max_results): one throttled request to the service
SearchArxivByTitle(q, max_results) ==
    /\ \E jitter \in Jitter : ThrottledRequest(jitter)
    /\ calls' = Append(calls, [query |-> q, max_results |-> max_results])

SearchResult(q, max_results) == Respond(service, TiQuery(q), max_results)

\* A plausible slip: strategy 1 does not return its results.
Strategy1NoReturn ==
    /\ driver = "resolve" /\ pc = "s1"
    /\ SearchArxivByTitle(QuotedTitle(title), DefaultMaxResults)
    /\ pc' = "s2" /\ ret' = ret
    /\ UNCHANGED <<driver, title, authors, service, threadVars, storeVars, analyzerVars, processVars>>

\* Strategy 1: the quoted title
Strategy1 ==
    /\ driver = "resolve" /\ pc = "s1"
    /\ SearchArxivByTitle(QuotedTitle(title), DefaultMaxResults)
    /\ LET search_results == SearchResult(QuotedTitle(title), DefaultMaxResults) IN
         IF search_results # <<>>
         THEN pc' = "done" /\ ret' = search_results
         ELSE pc' = "s2" /\ ret' = ret
    /\ UNCHANGED <<driver, title, authors, service, threadVars, storeVars, analyzerVars, processVars>>

\* Strategy 2: the title without quotes
Strategy2 ==
    /\ driver = "resolve" /\ pc = "s2"
    /\ SearchArxivByTitle(title, DefaultMaxResults)
    /\ LET search_results == SearchResult(title, DefaultMaxResults) IN
         IF search_results # <<>>
         THEN pc' = "done" /\ ret' = search_results
         ELSE pc' = "s3" /\ ret' = ret
    /\ UNCHANGED <<driver, title, authors, service, threadVars, storeVars, analyzerVars, processVars>>

\* Strategy 3: first author's last name AND a key phrase; then `return []`
Strategy3 ==
    /\ driver = "resolve" /\ pc = "s3"
    /\ IF Strategy3Applies(title, authors)
       THEN LET author_query == AuthorQuery(LastName(authors[1]), KeyPhrase(title)) IN
            /\ SearchArxivByTitle(author_query, DefaultMaxResults)
            /\ ret' = SearchResult(author_query, DefaultMaxResults)
       ELSE /\ ret' = <<>>
            /\ UNCHANGED <<calls, now, nIssued, lastStart, lastDelay>>
    /\ pc' = "done"
    /\ UNCHANGED <<driver, title, authors, service, threadVars, storeVars, analyzerVars, processVars>>

\* N calls of throttled_request one after another (test_throttled_request)
SequentialCall ==
    /\ driver = "seq" /\ pc = "seq"
    /\ nIssued < MaxCalls
    /\ \E jitter \in Jitter : ThrottledRequest(jitter)
    /\ UNCHANGED <<driver, title, authors, service, pc, calls, ret, threadVars, storeVars, analyzerVars, processVars>>

-----------------------------------------------------------------------------
(* Concurrent callers of throttled_request.  The function keeps no state   *)
(* between calls: each caller draws its own delay and sleeps on its own.   *)

Threads == 1..NThreads

\* jitter and delay are computed, then time.sleep(delay) starts
ThreadSleep(t) ==
    /\ driver = "threads" /\ tpc[t] = "call"
    /\ tcount[t] < MaxThreadCalls
    /\ \E jitter \in Jitter : wake' = [wake EXCEPT ![t] = now + Delay(jitter)]
    /\ tpc' = [tpc EXCEPT ![t] = "sleeping"]
    /\ UNCHANGED <<resolverVars, tcount, issuedAt, storeVars, analyzerVars, processVars>>

\* the sleep is over: func(*args, **kwargs) is executed
ThreadExecute(t) ==
    /\ driver = "threads" /\ tpc[t] = "sleeping"
    /\ now >= wake[t]
    /\ issuedAt' = Append(issuedAt, now)
    /\ tcount' = [tcount EXCEPT ![t] = @ + 1]
    /\ tpc' = [tpc EXCEPT ![t] = "call"]
    /\ UNCHANGED <<resolverVars, wake, storeVars, analyzerVars, processVars>>

\* time passes up to the next wake-up
Tick ==
    /\ driver = "threads"
    /\ \E t \in Threads : tpc[t] = "sleeping"
    /\ \A t \in Threads : tpc[t] = "sleeping" => wake[t] > now
    /\ now' = CHOOSE w \in {wake[t] : t \in {u \in Threads : tpc[u] = "sleeping"}} :
                \A t \in Threads : tpc[t] = "sleeping" => w <= wake[t]
    /\ UNCHANGED <<driver, title, authors, service, pc, calls, ret,
                   nIssued, lastStart, lastDelay, threadVars, storeVars, analyzerVars, processVars>>

-----------------------------------------------------------------------------
(* Inputs.                                                                 *)

TitleWords ==
    { <<"T", "h", "e">>, <<"o", "f">>, <<"D", "e", "e", "p">>,
      <<"N", "e", "t", "s", ":">>, <<"-", "-">> }

Titles ==
    { Join(ws, <<" ">>) : ws \in UNION { [1..n -> TitleWords] : n \in 0..MaxTitleWords } }

AuthorLists ==
    { <<>>,
      << <<>> >>,
      << <<"S", "m", "i", "t", "h", ",", " ", "J", "o", "h", "n">>,
         <<"L", "e", "e", ",", " ", "A", "n", "n">> >>,
      << <<" ", "K", "i", "m", " ">> >> }

\* result lists the service can return, best match first
ResultLists == { <<>>, <<"1706.03762v5">>, <<"2101.00001v1", "1706.03762v5">> }

\* the queries search_with_fallback can send for (t, a)
QueriesOf(t, a) ==
    { TiQuery(QuotedTitle(t)), TiQuery(t) }
        \cup (IF a # <<>>
              THEN { TiQuery(AuthorQuery(LastName(a[1]), KeyPhrase(t))) }
              ELSE {})

NoService == [q \in {} |-> <<>>]

ThreadsIdle ==
    /\ tpc = [t \in Threads |-> "call"]
    /\ wake = [t \in Threads |-> 0]
    /\ tcount = [t \in Threads |-> 0]
    /\ issuedAt = <<>>

StoreIdle ==
    /\ stage = "none" /\ records = <<>>
    /\ table = [columns |-> {}, rows |-> <<>>]
    /\ relevance_scores = <<>>
    /\ files = <<>> /\ fileOps = <<>>
    /\ storeErr = "none"

AnalyzerIdle ==
    /\ amode = "none" /\ papers = <<>> /\ questions = <<>>
    /\ modelKey = "" /\ environment = "" /\ repertoire = {}
    /\ apc = "none" /\ bi = 0 /\ bj = 0
    /\ results = <<>> /\ token_usage = <<>> /\ raised = "none"
    /\ nGetProvider = 0 /\ llmCalls = <<>> /\ lastResult = <<>>

ProcessIdle ==
    /\ raw_papers = <<>> /\ lookup = <<>> /\ pi = 0
    /\ enriched_papers = <<>> /\ not_found_count = 0 /\ ppc = "none"

ClockZero ==
    /\ now = 0 /\ nIssued = 0 /\ lastStart = 0 /\ lastDelay = 0

\* search_with_fallback(title, authors) is entered, or the sequential caller starts
InitResolver ==
    /\ driver \in {"resolve", "seq"}
    /\ IF driver = "resolve"
       THEN /\ title \in Titles
            /\ authors \in AuthorLists
            /\ service \in [QueriesOf(title, authors) -> ResultLists]
            /\ pc = "s1"
       ELSE /\ title = <<>> /\ authors = <<>> /\ service = NoService
            /\ pc = "seq"
    /\ calls = <<>> /\ ret = <<>>
    /\ ClockZero
    /\ ThreadsIdle
    /\ ProcessIdle
    /\ StoreIdle
    /\ AnalyzerIdle

NextResolver == Strategy1 \/ Strategy2 \/ Strategy3 \/ SequentialCall

SpecResolver == InitResolver /\ [][NextResolver]_vars

InitThreads ==
    /\ driver = "threads"
    /\ title = <<>> /\ authors = <<>> /\ service = NoService
    /\ pc = "none" /\ calls = <<>> /\ ret = <<>>
    /\ ClockZero
    /\ ThreadsIdle
    /\ ProcessIdle
    /\ StoreIdle
    /\ AnalyzerIdle

NextThreads ==
    \/ \E t \in Threads : ThreadSleep(t)
    \/ \E t \in Threads : ThreadExecute(t)
    \/ Tick

SpecThreads == InitThreads /\ [][NextThreads]_vars

-----------------------------------------------------------------------------
(* Properties of search_with_fallback and throttled_request.               *)

Resolved == driver = "resolve" /\ pc = "done"

AnswerTo(q) == SearchResult(q, DefaultMaxResults)

SmithAndLee ==
    << <<"S", "m", "i", "t", "h", ",", " ", "J", "o", "h", "n">>,
       <<"L", "e", "e", ",", " ", "A", "n", "n">> >>

DeepNetsTitle == <<"D", "e", "e", "p", " ", "N", "e", "t", "s", ":">>

\* the stop-word list as the specification gives it: a/an/the/on/of/for/and/in/to/with
StopWords ==
    { <<"a">>, <<"a", "n">>, <<"t", "h", "e">>, <<"o", "n">>, <<"o", "f">>,
      <<"f", "o", "r">>, <<"a", "n", "d">>, <<"i", "n">>, <<"t", "o">>,
      <<"w", "i", "t", "h">> }

\* every word of the title is a stop-word once its punctuation is stripped
OnlyStopWords(t) ==
    \A i \in 1..Len(Split(t)) : Lower(CleanWord(Split(t)[i])) \in StopWords

\* every query search_with_fallback can send comes back empty
NothingMatches == \A q \in DOMAIN service : service[q] = <<>>

\* C3: when the quoted-title search returns a non-empty result, search_with_fallback
\* makes exactly one search call (the quoted title, max_results 5), returns exactly
\* that result, and strategies 2 and 3 are never invoked.
C3_ExactMatchOneCall ==
    (driver = "resolve" /\ AnswerTo(QuotedTitle(title)) # <<>>) =>
        /\ Len(calls) <= 1
        /\ pc \in {"s1", "done"}
        /\ pc = "done" =>
            /\ calls = << [query |-> QuotedTitle(title), max_results |-> 5] >>
            /\ ret = AnswerTo(QuotedTitle(title))

\* C3 witness: strategy 1 matched and returned while strategy 2 would have matched too.
C3_Witness ==
    /\ Resolved
    /\ AnswerTo(QuotedTitle(title)) # <<>>
    /\ AnswerTo(title) # <<>>
    /\ AnswerTo(title) # AnswerTo(QuotedTitle(title))
    /\ Len(calls) = 1

\* C4: when strategies 1 and 2 return empty and the author-anchored query matches,
\* search_with_fallback makes exactly 3 search calls, in the order quoted title,
\* unquoted title, author:<family name> AND "<distinctive phrase>", and returns the
\* result of the third.
C4_AuthorMatchThreeCalls ==
    (/\ Resolved
     /\ AnswerTo(QuotedTitle(title)) = <<>>
     /\ AnswerTo(title) = <<>>
     /\ authors # <<>>
     /\ KeyPhrase(title) # <<>>
     /\ AnswerTo(AuthorQuery(LastName(authors[1]), KeyPhrase(title))) # <<>>) =>
        /\ Len(calls) = 3
        /\ calls[1] = [query |-> QuotedTitle(title), max_results |-> 5]
        /\ calls[2] = [query |-> title, max_results |-> 5]
        /\ calls[3].query = AuthorQuery(LastName(authors[1]), KeyPhrase(title))
        /\ calls[3].max_results = 5
        /\ ret = AnswerTo(calls[3].query)
        /\ ret # <<>>
        /\ (title = DeepNetsTitle /\ authors = SmithAndLee) =>
              calls[3].query =
                  <<"a", "u", "t", "h", "o", "r", ":", "S", "m", "i", "t", "h",
                    " ", "A", "N", "D", " ", "\"", "D", "e", "e", "p", " ",
                    "N", "e", "t", "s", "\"">>

\* C4 witness: "Deep Nets:" by Smith, John is found by the author-anchored query only.
C4_Witness ==
    /\ Resolved
    /\ title = DeepNetsTitle /\ authors = SmithAndLee
    /\ AnswerTo(QuotedTitle(title)) = <<>>
    /\ AnswerTo(title) = <<>>
    /\ Len(calls) = 3
    /\ ret = <<"2101.00001v1", "1706.03762v5">>

\* C5 as stated: when every search call returns empty, search_with_fallback makes
\* exactly 3 search calls and returns an empty list.
C5_NoMatchThreeCalls ==
    (Resolved /\ NothingMatches) => (Len(calls) = 3 /\ ret = <<>>)

\* C5 amended: when every search call returns empty, search_with_fallback returns an
\* empty list after exactly 3 search calls if the authors list is non-empty and some
\* word of the title is not a stop-word after punctuation stripping, and after
\* exactly 2 search calls otherwise.
C5_NoMatchTwoOrThreeCalls ==
    (Resolved /\ NothingMatches) =>
        /\ ret = <<>>
        /\ Len(calls) = IF authors # <<>> /\ ~OnlyStopWords(title) THEN 3 ELSE 2
        /\ \A i \in 1..Len(calls) : calls[i].max_results = 5

\* C5 witness: nothing matches, authors and a distinctive word exist, 3 calls were made.
C5_Witness ==
    /\ Resolved /\ NothingMatches
    /\ authors # <<>> /\ ~OnlyStopWords(title)
    /\ Len(calls) = 3 /\ ret = <<>>

\* C6: when strategies 1 and 2 return empty and the authors list is empty or the
\* title holds only stop-words, no third search call is made and the result is empty.
C6_Strategy3Skipped ==
    (/\ Resolved
     /\ AnswerTo(QuotedTitle(title)) = <<>>
     /\ AnswerTo(title) = <<>>
     /\ (authors = <<>> \/ OnlyStopWords(title))) =>
        /\ Len(calls) = 2
        /\ calls[2].query = title
        /\ ret = <<>>

\* C6 witness: "The of" with authors given; the service would have answered an
\* author-anchored query, and none was sent.
C6_Witness ==
    /\ Resolved
    /\ title = <<"T", "h", "e", " ", "o", "f">>
    /\ authors = SmithAndLee
    /\ \E q \in DOMAIN service :
          q \notin {TiQuery(QuotedTitle(title)), TiQuery(title)} /\ service[q] # <<>>
    /\ Len(calls) = 2 /\ ret = <<>>

\* C7: every operation of a sequence of N throttled calls runs after a delay of at
\* least 0.8 and at most 1.2 from the start of its call, so N calls take at least
\* 0.8 * N (3 calls at least 2.0); every search call of the resolver is made through
\* this delay.
C7_ThrottleFloor ==
    /\ nIssued >= 1 =>
          /\ lastDelay >= 8 /\ lastDelay <= 12
          /\ now - lastStart = lastDelay
    /\ now >= 8 * nIssued
    /\ now >= 8 * (nIssued - 1)
    /\ nIssued = 3 => now >= 20
    /\ driver = "resolve" => Len(calls) = nIssued

\* C7 witness: three sequential calls, each with the shortest delay.
C7_Witness == driver = "seq" /\ nIssued = 3 /\ now = 24

\* C8: with concurrent callers, no two operations are issued closer together than
\* the 0.8 floor.
C8_PacingSerialized ==
    \A i, j \in 1..Len(issuedAt) :
        i < j => issuedAt[j] - issuedAt[i] >= MinDelay

-----------------------------------------------------------------------------
(* Python values: None is <<>> and a value v that may be None is <<v>>.      *)

None == <<>>

\* {} as a dictionary
EmptyDict == [ x \in {} |-> x ]
Some(v) == <<v>>

\* d[k] = v on a dictionary
DictSet(d, k, v) == [ x \in DOMAIN d \cup {k} |-> IF x = k THEN v ELSE d[x] ]

-----------------------------------------------------------------------------
(* paper_store.py.  A DataFrame is [columns, rows]: every row maps every    *)
(* column to a value, NaN where the dictionary had no such key.  A score is *)
(* <<x>>, or <<>> for NaN.                                                  *)

NaN == "<NaN>"

\* pd.DataFrame(papers): the columns are the union of the dictionaries' keys
DataFrame(dicts) ==
    LET cols == UNION { DOMAIN dicts[i] : i \in 1..Len(dicts) } IN
    [ columns |-> cols,
      rows |-> [ i \in 1..Len(dicts) |->
                   [ c \in cols |-> IF c \in DOMAIN dicts[i] THEN dicts[i][c] ELSE NaN ] ] ]

\* required_fields
RequiredFields == {"title", "authors"}

\* create_dataframe(papers)
CreateDataframe ==
    /\ stage = "input"
    /\ IF records = <<>>
       THEN /\ stage' = "raised" /\ storeErr' = "ValueError" /\ table' = table
       ELSE LET df == DataFrame(records) IN
            IF \E field \in RequiredFields : field \notin df.columns
            THEN /\ stage' = "raised" /\ storeErr' = "ValueError" /\ table' = table
            ELSE /\ stage' = "built" /\ storeErr' = storeErr /\ table' = df
    /\ UNCHANGED <<records, relevance_scores, files, fileOps, resolverVars, threadVars,
                   analyzerVars, processVars>>

\* the rows among the first n that repeat the arxiv_id of an earlier row
RECURSIVE DuplicatedRows(_, _)
DuplicatedRows(rows, n) ==
    IF n = 0 THEN <<>>
    ELSE IF \E h \in 1..(n - 1) : rows[h]["arxiv_id"] = rows[n]["arxiv_id"]
    THEN Append(DuplicatedRows(rows, n - 1), rows[n])
    ELSE DuplicatedRows(rows, n - 1)

\* A plausible slip: the duplicated-rows mask is not negated, so the repeats are
\* what is kept.
DeduplicateKeepsRepeats(df) ==
    IF "arxiv_id" \notin df.columns THEN df
    ELSE [columns |-> df.columns, rows |-> DuplicatedRows(df.rows, Len(df.rows))]

\* deduplicate_papers(df): `return df`
DeduplicatePapersResult(df) == df

\* deduplicate_papers, as process() calls it after create_dataframe
DeduplicatePapers ==
    /\ stage = "built"
    /\ table' = DeduplicatePapersResult(table)
    /\ stage' = "deduplicated"
    /\ UNCHANGED <<records, relevance_scores, files, fileOps, storeErr, resolverVars,
                   threadVars, analyzerVars, processVars>>

\* the score values process() can pass (hundredths), and the rows' identifiers
ScoreValues == {0, 50, 80}
PaperIds == {"1706.03762v5", "2101.00001v1"}

\* df["score"] = df["arxiv_id"].map(relevance_scores): NaN where the id has no score
WithScore(row, scores) ==
    [ c \in DOMAIN row \cup {"score"} |->
        IF c = "score"
        THEN IF row["arxiv_id"] \in DOMAIN scores
             THEN <<scores[row["arxiv_id"]]>>
             ELSE <<>>
        ELSE row[c] ]

\* the order sort_values(by="score", ascending=False) puts two score cells in:
\* descending, NaN last
ScoreNotAfter(a, b) ==
    IF b = <<>> THEN TRUE
    ELSE IF a = <<>> THEN FALSE
    ELSE a[1] >= b[1]

\* sort_values(by="score", ascending=False); the default sort kind gives no promise
\* on the order of equal scores
SortedByScoreDescending(rows) ==
    \A i, j \in 1..Len(rows) :
        i < j => ScoreNotAfter(rows[i]["score"], rows[j]["score"])

\* rank_papers(df, relevance_scores) on the current table
RankPapersWith(scores) ==
    /\ relevance_scores' = scores
    /\ IF "arxiv_id" \notin table.columns
       THEN /\ stage' = "raised" /\ storeErr' = "KeyError" /\ table' = table
       ELSE LET scored == [ i \in 1..Len(table.rows) |->
                              WithScore(table.rows[i], scores) ] IN
            \E perm \in Permutations(1..Len(scored)) :
               LET sorted == [ i \in 1..Len(scored) |-> scored[perm[i]] ] IN
               /\ SortedByScoreDescending(sorted)
               /\ table' = [columns |-> table.columns \cup {"score"},
                            rows |-> sorted]
               /\ stage' = "ranked" /\ storeErr' = storeErr

\* rank_papers called with any mapping of scores
RankPapers ==
    /\ stage = "deduplicated"
    /\ \E ids \in SUBSET PaperIds : \E scores \in [ids -> ScoreValues] :
        RankPapersWith(scores)
    /\ UNCHANGED <<records, files, fileOps, resolverVars, threadVars, analyzerVars, processVars>>

-----------------------------------------------------------------------------
(* paper_store.py: save_dataframe and load_dataframe.  A parquet file is    *)
(* [schema, rows]: every column has one type, and a missing cell is a null. *)

\* a list value of a dictionary, written as its repr
ListOfAuthors == "['Smith, John', 'Lee, Ann']"
ListCells == { ListOfAuthors }

Null == "<null>"

\* the Python type of a cell of column c
PyType(c, v) ==
    IF c = "score" THEN (IF v = <<>> THEN "missing" ELSE "double")
    ELSE IF v = NaN THEN "missing"
    ELSE IF v \in ListCells THEN "list"
    ELSE "str"

\* the types of the cells of column c that hold a value
ColumnTypes(df, c) ==
    { PyType(c, df.rows[i][c]) : i \in 1..Len(df.rows) } \ {"missing"}

\* df.to_parquet: the conversion fails on a column that mixes types
ToParquet(df) ==
    IF \E c \in df.columns : Cardinality(ColumnTypes(df, c)) > 1
    THEN [ok |-> FALSE]
    ELSE [ok |-> TRUE,
          file |-> [ schema |-> [ c \in df.columns |->
                                    IF ColumnTypes(df, c) = {} THEN "null"
                                    ELSE CHOOSE t \in ColumnTypes(df, c) : TRUE ],
                     rows |-> [ i \in 1..Len(df.rows) |->
                                  [ c \in df.columns |->
                                      IF c = "score" THEN df.rows[i][c]
                                      ELSE IF df.rows[i][c] = NaN THEN Null
                                      ELSE df.rows[i][c] ] ] ]]

\* pd.read_parquet: a null is read back as a missing cell
ReadParquet(file) ==
    [ columns |-> DOMAIN file.schema,
      rows |-> [ i \in 1..Len(file.rows) |->
                   [ c \in DOMAIN file.schema |->
                       IF c = "score" THEN file.rows[i][c]
                       ELSE IF file.rows[i][c] = Null THEN NaN
                       ELSE file.rows[i][c] ] ] ]

\* A plausible slip: `return True` is reached although to_parquet raised.
SaveDataframeResultAlwaysTrue(df, output_path, fs, writable) ==
    LET written == ToParquet(df) IN
    IF writable /\ written.ok
    THEN [ok |-> TRUE, files |-> DictSet(fs, output_path, written.file)]
    ELSE [ok |-> TRUE, files |-> fs]

\* save_dataframe(df, output_path): the value returned and the file system after
\* the call; writable says whether the directory and the file can be written
SaveDataframeResult(df, output_path, fs, writable) ==
    LET written == ToParquet(df) IN
    IF writable /\ written.ok
    THEN [ok |-> TRUE, files |-> DictSet(fs, output_path, written.file)]
    ELSE [ok |-> FALSE, files |-> fs]

\* A plausible slip: without the existence test, a file found in the directory is
\* read instead.
LoadDataframeResultAnyFile(input_path, fs) ==
    IF input_path \in DOMAIN fs THEN Some(ReadParquet(fs[input_path]))
    ELSE IF DOMAIN fs # {} THEN Some(ReadParquet(fs[CHOOSE q \in DOMAIN fs : TRUE]))
    ELSE None

\* load_dataframe(input_path): None when no file exists at the path
LoadDataframeResult(input_path, fs) ==
    IF input_path \notin DOMAIN fs THEN None
    ELSE Some(ReadParquet(fs[input_path]))

Paths == { "out/ranked.parquet", "papers.parquet" }

\* save_dataframe on the current table
SaveDataframe ==
    /\ stage \in {"built", "deduplicated", "ranked"}
    /\ Len(fileOps) < MaxFileOps
    /\ \E output_path \in Paths : \E writable \in BOOLEAN :
        \E r \in { SaveDataframeResult(table, output_path, files, writable) } :
            /\ files' = r.files
            /\ fileOps' = Append(fileOps, [op |-> "save", path |-> output_path,
                                           df |-> table, result |-> r.ok])
    /\ UNCHANGED <<stage, records, table, relevance_scores, storeErr, resolverVars,
                   threadVars, analyzerVars, processVars>>

\* load_dataframe
LoadDataframe ==
    /\ stage # "none"
    /\ Len(fileOps) < MaxFileOps
    /\ \E input_path \in Paths :
        fileOps' = Append(fileOps, [op |-> "load", path |-> input_path,
                                    result |-> LoadDataframeResult(input_path, files)])
    /\ UNCHANGED <<stage, records, table, relevance_scores, files, storeErr,
                   resolverVars, threadVars, analyzerVars, processVars>>

\* the paper dictionaries: two raw records that resolved to the same arXiv entry,
\* a third paper, records lacking a field, a raw record that was never resolved,
\* and a record whose authors are a list
RecordDicts ==
    { [title |-> "Attention Is All You Need", authors |-> "Vaswani, Ashish",
       arxiv_id |-> "1706.03762v5"],
      [title |-> "Attention is all you need", authors |-> "A Vaswani, N Shazeer",
       arxiv_id |-> "1706.03762v5"],
      [title |-> "Deep Nets", authors |-> "Smith, John", arxiv_id |-> "2101.00001v1"],
      [authors |-> "Smith, John", arxiv_id |-> "2101.00001v1"],
      [title |-> "Deep Nets", arxiv_id |-> "2101.00001v1"],
      [title |-> "Deep Nets", authors |-> "Smith, John"],
      [title |-> "Deep Nets", authors |-> ListOfAuthors, arxiv_id |-> "2101.00001v1"] }

InitStore ==
    /\ stage = "input"
    /\ records \in UNION { [1..n -> RecordDicts] : n \in 0..MaxRecords }
    /\ table = [columns |-> {}, rows |-> <<>>]
    /\ relevance_scores = <<>>
    /\ files = <<>> /\ fileOps = <<>>
    /\ storeErr = "none"
    /\ driver = "none" /\ title = <<>> /\ authors = <<>> /\ service = NoService
    /\ pc = "none" /\ calls = <<>> /\ ret = <<>>
    /\ ClockZero
    /\ ThreadsIdle
    /\ ProcessIdle
    /\ AnalyzerIdle

NextStore == CreateDataframe \/ DeduplicatePapers \/ RankPapers

SpecStore == InitStore /\ [][NextStore]_vars

\* create_dataframe has returned a table, which is about to be saved and loaded
InitFiles ==
    /\ stage = "built"
    /\ records \in UNION { [1..n -> RecordDicts] : n \in 1..MaxRecords }
    /\ RequiredFields \subseteq DataFrame(records).columns
    /\ table = DataFrame(records)
    /\ relevance_scores = <<>>
    /\ files = <<>> /\ fileOps = <<>>
    /\ storeErr = "none"
    /\ driver = "none" /\ title = <<>> /\ authors = <<>> /\ service = NoService
    /\ pc = "none" /\ calls = <<>> /\ ret = <<>>
    /\ ClockZero
    /\ ThreadsIdle
    /\ ProcessIdle
    /\ AnalyzerIdle

NextFiles == SaveDataframe \/ LoadDataframe

SpecFiles == InitFiles /\ [][NextFiles]_vars

\* C1: after deduplicate_papers the table holds exactly one row for every arxiv_id
\* of the table it was given, and so does the table rank_papers returns.
C1_OneRowPerId ==
    (stage \in {"deduplicated", "ranked"} /\ "arxiv_id" \in table.columns) =>
        /\ \A i, j \in 1..Len(table.rows) :
              (i # j /\ table.rows[i]["arxiv_id"] # NaN) =>
                  table.rows[i]["arxiv_id"] # table.rows[j]["arxiv_id"]
        /\ { table.rows[i]["arxiv_id"] : i \in 1..Len(table.rows) }
              = { DataFrame(records).rows[i]["arxiv_id"] : i \in 1..Len(records) }

-----------------------------------------------------------------------------
(* llm_analyzer.py: parse_relevance_response.                              *)
(* Indices are Python's (0-based); find returns -1 when there is no match. *)

\* The backquote character (U+0060), which a TLA+ string cannot hold.
BQ == "<backquote>"

\* the indices at which sub occurs in s
Occurrences[s \in Seq(STRING), sub \in Seq(STRING)] ==
    { k \in 0..(Len(s) - Len(sub)) : SubSeq(s, k + 1, k + Len(sub)) = sub }

\* sub in s
Contains(s, sub) == Occurrences[s, sub] # {}

\* the least and the greatest of a set of integers
Least[S \in SUBSET Int] == CHOOSE k \in S : \A h \in S : k <= h
Greatest[S \in SUBSET Int] == CHOOSE k \in S : \A h \in S : k >= h

\* s.find(sub)
Find[s \in Seq(STRING), sub \in Seq(STRING)] ==
    IF Contains(s, sub) THEN Least[Occurrences[s, sub]] ELSE -1

\* s.rfind(sub)
RFind[s \in Seq(STRING), sub \in Seq(STRING)] ==
    IF Contains(s, sub) THEN Greatest[Occurrences[s, sub]] ELSE -1

\* s[a:b] for a >= 0 and b >= 0
Slice[s \in Seq(STRING), a \in Nat, b \in Nat] ==
    SubSeq(s, a + 1, IF b < Len(s) THEN b ELSE Len(s))

\* re.search(open + "(.*?)" + close, s, re.DOTALL): <<group(1)>>, or <<>> for no match
RegexGroup[s \in Seq(STRING), open \in Seq(STRING), close \in Seq(STRING)] ==
    LET i == Find[s, open] IN
    IF i < 0 THEN <<>>
    ELSE LET rest == Slice[s, i + Len(open), Len(s)]
             j == Find[rest, close] IN
         IF j < 0 THEN <<>> ELSE << Slice[rest, 0, j] >>

DigitSeq == <<"0", "1", "2", "3", "4", "5", "6", "7", "8", "9">>
DigitValue(c) == (CHOOSE d \in 1..10 : DigitSeq[d] = c) - 1

DigitsValue[s \in Seq(STRING)] ==
    IF s = <<>> THEN 0
    ELSE 10 * DigitsValue[SubSeq(s, 1, Len(s) - 1)] + DigitValue(s[Len(s)])

AllDigits[s \in Seq(STRING)] == \A i \in 1..Len(s) : s[i] \in DigitChars

Pow10[n \in Nat] == IF n = 0 THEN 1 ELSE 10 * Pow10[n - 1]

\* A float is [kind |-> "finite", num, den] (the value num/den), [kind |-> "nan"]
\* or [kind |-> "inf", negative].
FloatOf(num, den) == [kind |-> "finite", num |-> num, den |-> den]
FloatZero == FloatOf(0, 1)

\* float(text) for decimal literals, nan and inf; [ok |-> FALSE] is ValueError.
\* (Exponents and digit-group underscores are not among the modelled inputs.)
PyFloat[text \in Seq(STRING)] ==
    LET t == Strip(text)
        signed == t # <<>> /\ Head(t) \in {"+", "-"}
        negative == t # <<>> /\ Head(t) = "-"
        body == IF signed THEN Tail(t) ELSE t
        dot == Find[body, <<".">>]
        ip == IF dot < 0 THEN body ELSE Slice[body, 0, dot]
        fp == IF dot < 0 THEN <<>> ELSE Slice[body, dot + 1, Len(body)]
    IN
    IF Lower(body) = <<"n", "a", "n">>
    THEN [ok |-> TRUE, value |-> [kind |-> "nan"]]
    ELSE IF Lower(body) \in { <<"i", "n", "f">>,
                              <<"i", "n", "f", "i", "n", "i", "t", "y">> }
    THEN [ok |-> TRUE, value |-> [kind |-> "inf", negative |-> negative]]
    ELSE IF AllDigits[ip] /\ AllDigits[fp] /\ (ip # <<>> \/ fp # <<>>)
    THEN [ok |-> TRUE,
          value |-> FloatOf((IF negative THEN -1 ELSE 1)
                              * (DigitsValue[ip] * Pow10[Len(fp)] + DigitsValue[fp]),
                            Pow10[Len(fp)])]
    ELSE [ok |-> FALSE]

\* relevance_score = score / 10.0
ScoreToRelevance(score) ==
    IF score.kind = "finite" THEN FloatOf(score.num, score.den * 10) ELSE score

PrefixLen == 200

\* the `except Exception as e` branch: the fallback for failed parsing
ParseFallback(response, message) ==
    [ relevance_score |-> FloatZero,
      explanation |->
          <<"F", "a", "i", "l", "e", "d", " ", "t", "o", " ", "p", "a", "r", "s",
        "e", " ", "L", "L", "M", " ", "r", "e", "s", "p", "o", "n", "s", "e",
        ":", " ">>
          \o message
          \o <<"\n", "O", "r", "i", "g", "i", "n", "a", "l", " ", "r", "e", "s",
        "p", "o", "n", "s", "e", ":", " ">>
          \o Slice[response, 0, PrefixLen] \o <<".", ".", ".">>,
      parse_error |-> message ]

\* parse_relevance_response(response)
ParseRelevanceResponse[response \in Seq(STRING)] ==
    LET stripped == Strip(response)
        fence_xml == <<BQ, BQ, BQ, "x", "m", "l">>
        fence == <<BQ, BQ, BQ>>
        xml_content ==
            IF Contains(stripped, fence_xml) /\ Contains(stripped, fence)
            THEN Strip(Slice[stripped, Find[stripped, fence_xml] + 7,
                             RFind[stripped, fence]])
            ELSE IF Contains(stripped, fence)
            THEN Strip(Slice[stripped, Find[stripped, fence] + 3,
                             RFind[stripped, fence]])
            ELSE stripped
        explanation_match ==
            RegexGroup[xml_content, <<"<", "e", "x", "p", "l", "a", "n", "a", "t", "i", "o", "n", ">">>,
                       <<"<", "/", "e", "x", "p", "l", "a", "n", "a", "t", "i", "o", "n", ">">>]
        score_match ==
            RegexGroup[xml_content, <<"<", "s", "c", "o", "r", "e", ">">>, <<"<", "/", "s", "c", "o", "r", "e", ">">>]
    IN
    IF explanation_match = <<>> \/ score_match = <<>>
    THEN ParseFallback(response,
             <<"F", "a", "i", "l", "e", "d", " ", "t", "o", " ", "f", "i", "n", "d",
        " ", "e", "x", "p", "l", "a", "n", "a", "t", "i", "o", "n", " ", "o",
        "r", " ", "s", "c", "o", "r", "e", " ", "i", "n", " ", "X", "M", "L",
        " ", "r", "e", "s", "p", "o", "n", "s", "e">>)
    ELSE LET score == PyFloat[Strip(score_match[1])] IN
         IF ~score.ok
         THEN ParseFallback(response,
                  <<"C", "o", "u", "l", "d", " ", "n", "o", "t", " ", "c", "o", "n", "v",
        "e", "r", "t", " ", "s", "c", "o", "r", "e", " ", "t", "o", " ", "f",
        "l", "o", "a", "t", ":", " ">>
                  \o score_match[1])
         ELSE [ relevance_score |-> ScoreToRelevance(score.value),
                explanation |-> Strip(explanation_match[1]) ]

-----------------------------------------------------------------------------
(* models.py, config.py and llm_analyzer.py: providers and analyze_relevance. *)
(* Names, keys and messages are whole strings here; a message built by an     *)
(* f-string is the sequence of its pieces.  None is <<>> and a value v that   *)
(* may be None is <<v>>.  Prices are in cents per million tokens, so a cost   *)
(* is in units of 1e-8 USD.                                                   *)

\* SUPPORTED_MODELS
SUPPORTED_MODELS ==
    [ m \in {"gpt-4o", "gpt-4o-mini", "claude-3-7-sonnet", "claude-3-5-haiku"} |->
        CASE m = "gpt-4o" ->
               [name |-> "GPT-4o", provider |-> "openai", api_model_id |-> "gpt-4o",
                pricing |-> [input |-> 250, output |-> 1000]]
          [] m = "gpt-4o-mini" ->
               [name |-> "GPT-4o Mini", provider |-> "openai",
                api_model_id |-> "gpt-4o-mini",
                pricing |-> [input |-> 15, output |-> 60]]
          [] m = "claude-3-7-sonnet" ->
               [name |-> "Claude 3.7 Sonnet", provider |-> "anthropic",
                api_model_id |-> "claude-3-7-sonnet-20240229",
                pricing |-> [input |-> 300, output |-> 1500]]
          [] m = "claude-3-5-haiku" ->
               [name |-> "Claude 3.5 Haiku", provider |-> "anthropic",
                api_model_id |-> "claude-3-5-haiku-20240307",
                pricing |-> [input |-> 80, output |-> 400]] ]

\* dict.get(key), None when the key is absent
DictGet(d, k) == IF k \in DOMAIN d THEN Some(d[k]) ELSE None

\* Python truthiness of an optional string
Truthy(opt) == opt # None /\ opt[1] # ""

\* env_var_name of get_api_key
EnvVarName ==
    [ provider \in {"openai", "anthropic"} |->
        IF provider = "openai" THEN "PAPER_LOUPE_OPENAI_API_KEY"
        ELSE "PAPER_LOUPE_ANTHROPIC_API_KEY" ]

\* get_api_key(config, provider), with os.environ as env.environ
GetApiKey(env, provider) ==
    LET env_var_name == DictGet(EnvVarName, provider) IN
    IF Truthy(env_var_name) /\ Truthy(DictGet(env.environ, env_var_name[1]))
    THEN DictGet(env.environ, env_var_name[1])
    ELSE IF "api_keys" \in DOMAIN env.config /\ provider \in DOMAIN env.config["api_keys"]
    THEN Some(env.config["api_keys"][provider])
    ELSE None

\* A plausible slip: the provider is constructed without looking at the flags that
\* say whether the client packages were imported.
GetProviderIgnoringAvailability(env, model_info) ==
    LET provider_name == model_info.provider
        api_key == GetApiKey(env, provider_name)
    IN
    IF ~Truthy(api_key) THEN None
    ELSE IF provider_name = "openai"
    THEN Some([class |-> "OpenAIProvider", api_key |-> api_key[1]])
    ELSE IF provider_name = "anthropic"
    THEN Some([class |-> "AnthropicProvider", api_key |-> api_key[1]])
    ELSE None

\* get_provider(config, model_info): None, or the provider that was constructed
GetProvider(env, model_info) ==
    LET provider_name == model_info.provider
        api_key == GetApiKey(env, provider_name)
    IN
    IF ~Truthy(api_key) THEN None
    ELSE IF provider_name = "openai"
    THEN IF ~env.OPENAI_AVAILABLE THEN None
         ELSE Some([class |-> "OpenAIProvider", api_key |-> api_key[1]])
    ELSE IF provider_name = "anthropic"
    THEN IF ~env.ANTHROPIC_AVAILABLE THEN None
         ELSE Some([class |-> "AnthropicProvider", api_key |-> api_key[1]])
    ELSE None

\* A plausible slip: the LLMError raised for a failed request does not carry the
\* message of the client library's exception.
OpenAIProviderAnalyzeWithoutMessage(outcome, model_id) ==
    IF outcome.kind = "api_error"
    THEN [raised |-> TRUE, error |-> <<"OpenAI API error: ">>]
    ELSE IF outcome.usage = None
    THEN [raised |-> TRUE,
          error |-> <<"OpenAI API error: ",
                      "'NoneType' object has no attribute 'prompt_tokens'">>]
    ELSE [raised |-> FALSE,
          content |-> outcome.text,
          metadata |-> [model |-> model_id, provider |-> "openai",
                        prompt_tokens |-> Some(outcome.usage[1].prompt_tokens),
                        completion_tokens |-> Some(outcome.usage[1].completion_tokens),
                        total_tokens |-> Some(outcome.usage[1].total_tokens)]]

\* OpenAIProvider.analyze: what the backend did (outcome) becomes a return value
\* or an LLMError
OpenAIProviderAnalyze(outcome, model_id) ==
    IF outcome.kind = "api_error"
    THEN [raised |-> TRUE, error |-> <<"OpenAI API error: ", outcome.message>>]
    ELSE IF outcome.usage = None
    THEN [raised |-> TRUE,
          error |-> <<"OpenAI API error: ",
                      "'NoneType' object has no attribute 'prompt_tokens'">>]
    ELSE [raised |-> FALSE,
          content |-> outcome.text,
          metadata |-> [model |-> model_id, provider |-> "openai",
                        prompt_tokens |-> Some(outcome.usage[1].prompt_tokens),
                        completion_tokens |-> Some(outcome.usage[1].completion_tokens),
                        total_tokens |-> Some(outcome.usage[1].total_tokens)]]

\* AnthropicProvider.analyze
AnthropicProviderAnalyze(outcome, model_id) ==
    IF outcome.kind = "api_error"
    THEN [raised |-> TRUE, error |-> <<"Anthropic API error: ", outcome.message>>]
    ELSE [raised |-> FALSE,
          content |-> outcome.text,
          metadata |-> [model |-> model_id, provider |-> "anthropic",
                        prompt_tokens |-> None,
                        completion_tokens |-> None,
                        total_tokens |-> None]]

ProviderAnalyze(provider, outcome, model_id) ==
    IF provider.class = "OpenAIProvider"
    THEN OpenAIProviderAnalyze(outcome, model_id)
    ELSE AnthropicProviderAnalyze(outcome, model_id)

\* the validation at the top of analyze_relevance: the missing field, or "none"
MissingField(paper_data) ==
    IF "arxiv_id" \notin DOMAIN paper_data THEN "arxiv_id"
    ELSE IF "title" \notin DOMAIN paper_data THEN "title"
    ELSE "none"

\* analyze_relevance once paper_data has passed the validation.  The value is
\* [raised, result, get_provider, llm]: the exception raised ("none" when the call
\* returned), the dictionary returned, and how many times get_provider and
\* provider.analyze were called.
AnalyzeValidPaper(paper_data, question, env, model, outcome) ==
    LET model_info == DictGet(SUPPORTED_MODELS, model) IN
    IF model_info = None
    THEN [raised |-> "none", get_provider |-> 0, llm |-> 0,
          result |-> [relevance_score |-> FloatZero,
                      explanation |-> <<"Error: Model '", model, "' not supported.">>,
                      error |-> TRUE,
                      arxiv_id |-> paper_data["arxiv_id"],
                      title |-> paper_data["title"]]]
    ELSE
    LET provider == GetProvider(env, model_info[1]) IN
    IF provider = None
    THEN [raised |-> "none", get_provider |-> 1, llm |-> 0,
          result |-> [relevance_score |-> FloatZero,
                      explanation |-> <<"Error: Failed to initialize ",
                                        model_info[1].provider, " provider.">>,
                      error |-> TRUE,
                      arxiv_id |-> paper_data["arxiv_id"],
                      title |-> paper_data["title"]]]
    ELSE
    LET response == ProviderAnalyze(provider[1], outcome, model_info[1].api_model_id) IN
    IF response.raised
    THEN [raised |-> "none", get_provider |-> 1, llm |-> 1,
          result |-> [relevance_score |-> FloatZero,
                      explanation |-> <<"Error from LLM: ">> \o response.error,
                      error |-> TRUE,
                      question |-> question,
                      arxiv_id |-> paper_data["arxiv_id"],
                      title |-> paper_data["title"],
                      metadata |-> [model_used |-> model]]]
    ELSE
    LET parsed == ParseRelevanceResponse[response.content] IN
         [raised |-> "none", get_provider |-> 1, llm |-> 1,
          result |-> [ k \in DOMAIN parsed \cup {"question", "arxiv_id", "title", "metadata"} |->
                         CASE k = "question" -> question
                           [] k = "arxiv_id" -> paper_data["arxiv_id"]
                           [] k = "title" -> paper_data["title"]
                           [] k = "metadata" -> response.metadata
                           [] OTHER -> parsed[k] ]]

\* A plausible slip: the fields are validated only after the provider is resolved.
AnalyzeRelevanceLateValidation(paper_data, question, env, model, outcome) ==
    IF MissingField(paper_data) # "none"
    THEN [raised |-> "ValueError",
          get_provider |-> IF DictGet(SUPPORTED_MODELS, model) = None THEN 0 ELSE 1,
          llm |-> 0, result |-> EmptyDict]
    ELSE AnalyzeValidPaper(paper_data, question, env, model, outcome)

\* analyze_relevance(paper_data, question, config, model)
AnalyzeRelevance(paper_data, question, env, model, outcome) ==
    IF MissingField(paper_data) # "none"
    THEN [raised |-> "ValueError", get_provider |-> 0, llm |-> 0, result |-> EmptyDict]
    ELSE AnalyzeValidPaper(paper_data, question, env, model, outcome)

\* one call of analyze_relevance from outside batch_analyze
AnalyzeRelevanceCall ==
    /\ amode = "analyze" /\ apc = "start"
    /\ \E outcome \in repertoire :
        \E r \in { AnalyzeRelevance(papers[1], questions[1], environment, modelKey,
                                     outcome) } :
        /\ raised' = r.raised
        /\ apc' = IF r.raised = "none" THEN "returned" ELSE "raised"
        /\ lastResult' = IF r.raised = "none" THEN Some(r.result) ELSE lastResult
        /\ nGetProvider' = nGetProvider + r.get_provider
        /\ llmCalls' = IF r.llm = 1
                       THEN Append(llmCalls, [paper |-> 1, question |-> 1,
                                              outcome |-> outcome])
                       ELSE llmCalls
    /\ UNCHANGED <<amode, papers, questions, modelKey, environment, repertoire,
                   bi, bj, results, token_usage,
                   resolverVars, threadVars, storeVars, processVars>>

-----------------------------------------------------------------------------
(* llm_analyzer.py: batch_analyze                                          *)


TokenUsageZero ==
    [ total_prompt_tokens |-> 0, total_completion_tokens |-> 0,
      total_tokens |-> 0, estimated_cost |-> 0 ]

\* A plausible slip: the completion tokens are charged at the input price.
CallCostAtInputPrice(prompt_tokens, completion_tokens, model_info) ==
    prompt_tokens * model_info.pricing.input
        + completion_tokens * model_info.pricing.input

\* input_cost + output_cost of one call (prices per million tokens)
CallCost(prompt_tokens, completion_tokens, model_info) ==
    prompt_tokens * model_info.pricing.input
        + completion_tokens * model_info.pricing.output

\* the first paper the validation loop rejects (0 when there is none)
FirstInvalid(ps) ==
    IF \E i \in 1..Len(ps) : MissingField(ps[i]) # "none"
    THEN CHOOSE i \in 1..Len(ps) :
            /\ MissingField(ps[i]) # "none"
            /\ \A k \in 1..(i - 1) : MissingField(ps[k]) = "none"
    ELSE 0

\* where the loops stand after the body has run for (i, j)
LoopDone(i, j) ==
    i > Len(papers) \/ (i = Len(papers) /\ j >= Len(questions))

\* A plausible slip: the papers are not validated before the loop starts.
BatchStartNoValidation ==
    /\ amode = "batch" /\ apc = "start"
    /\ results' = EmptyDict
    /\ token_usage' = TokenUsageZero
    /\ IF DictGet(SUPPORTED_MODELS, modelKey) = None
       THEN apc' = "raised" /\ raised' = "ValueError" /\ UNCHANGED <<bi, bj>>
       ELSE IF papers = <<>>
       THEN apc' = "returned" /\ raised' = raised /\ UNCHANGED <<bi, bj>>
       ELSE apc' = "loop" /\ raised' = raised /\ bi' = 1 /\ bj' = 1
    /\ UNCHANGED <<amode, papers, questions, modelKey, environment, repertoire,
                   nGetProvider, llmCalls, lastResult,
                   resolverVars, threadVars, storeVars, processVars>>

\* batch_analyze up to its loop: results and token_usage are created, the model is
\* looked up and every paper is validated
BatchStart ==
    /\ amode = "batch" /\ apc = "start"
    /\ results' = EmptyDict
    /\ token_usage' = TokenUsageZero
    /\ IF DictGet(SUPPORTED_MODELS, modelKey) = None
       THEN apc' = "raised" /\ raised' = "ValueError" /\ UNCHANGED <<bi, bj>>
       ELSE IF FirstInvalid(papers) # 0
       THEN apc' = "raised" /\ raised' = "ValueError" /\ UNCHANGED <<bi, bj>>
       ELSE IF papers = <<>>
       THEN apc' = "returned" /\ raised' = raised /\ UNCHANGED <<bi, bj>>
       ELSE apc' = "loop" /\ raised' = raised /\ bi' = 1 /\ bj' = 1
    /\ UNCHANGED <<amode, papers, questions, modelKey, environment, repertoire,
                   nGetProvider, llmCalls, lastResult,
                   resolverVars, threadVars, storeVars, processVars>>

\* `for paper in papers` for a paper when there is no question: results[paper_id] = {}
BatchPaperWithoutQuestions ==
    /\ amode = "batch" /\ apc = "loop"
    /\ questions = <<>>
    /\ IF "arxiv_id" \notin DOMAIN papers[bi]
       THEN apc' = "raised" /\ raised' = "KeyError" /\ UNCHANGED <<bi, results>>
       ELSE /\ results' = DictSet(results, papers[bi]["arxiv_id"], EmptyDict)
            /\ raised' = raised
            /\ IF LoopDone(bi, 1) THEN apc' = "returned" /\ bi' = bi
                                  ELSE apc' = apc /\ bi' = bi + 1
    /\ UNCHANGED <<amode, papers, questions, modelKey, environment, repertoire,
                   bj, token_usage, nGetProvider, llmCalls, lastResult,
                   resolverVars, threadVars, storeVars, processVars>>

\* one pass of the inner loop body, for paper bi and question bj (with
\* results[paper_id] = {} before the paper's first question)
BatchStep ==
    /\ amode = "batch" /\ apc = "loop"
    /\ questions # <<>>
    /\ \E outcome \in repertoire :
        LET paper == papers[bi]
            question == questions[bj]
        IN
        IF "arxiv_id" \notin DOMAIN paper
        THEN /\ apc' = "raised" /\ raised' = "KeyError"
             /\ UNCHANGED <<bi, bj, results, token_usage, nGetProvider, llmCalls,
                            lastResult>>
        ELSE
        \E r \in { AnalyzeRelevance(paper, question, environment, modelKey, outcome) } :
        LET paper_id == paper["arxiv_id"]
            opened == IF bj = 1 THEN DictSet(results, paper_id, EmptyDict) ELSE results
        IN
        /\ nGetProvider' = nGetProvider + r.get_provider
        /\ llmCalls' = IF r.llm = 1
                       THEN Append(llmCalls, [paper |-> bi, question |-> bj,
                                              outcome |-> outcome])
                       ELSE llmCalls
        /\ IF r.raised # "none"
           THEN /\ apc' = "raised" /\ raised' = r.raised
                /\ results' = opened
                /\ UNCHANGED <<bi, bj, token_usage, lastResult>>
           ELSE
           LET analysis_result == r.result
               metadata == IF "metadata" \in DOMAIN analysis_result
                           THEN analysis_result["metadata"] ELSE EmptyDict
               prompt_tokens == IF "prompt_tokens" \in DOMAIN metadata
                                THEN metadata["prompt_tokens"] ELSE Some(0)
               completion_tokens == IF "completion_tokens" \in DOMAIN metadata
                                    THEN metadata["completion_tokens"] ELSE Some(0)
               total_tokens == IF "total_tokens" \in DOMAIN metadata
                               THEN metadata["total_tokens"] ELSE Some(0)
               model_info == SUPPORTED_MODELS[modelKey]
           IN
           /\ lastResult' = Some(analysis_result)
           /\ results' = DictSet(opened, paper_id,
                                 DictSet(opened[paper_id], question, analysis_result))
           /\ IF prompt_tokens = None \/ completion_tokens = None \/ total_tokens = None
              THEN \* token_usage[...] += None
                   /\ apc' = "raised" /\ raised' = "TypeError"
                   /\ UNCHANGED <<bi, bj, token_usage>>
              ELSE /\ token_usage' =
                        [ total_prompt_tokens |->
                              token_usage.total_prompt_tokens + prompt_tokens[1],
                          total_completion_tokens |->
                              token_usage.total_completion_tokens + completion_tokens[1],
                          total_tokens |-> token_usage.total_tokens + total_tokens[1],
                          estimated_cost |->
                              token_usage.estimated_cost
                                + CallCost(prompt_tokens[1], completion_tokens[1],
                                           model_info) ]
                   /\ raised' = raised
                   /\ IF LoopDone(bi, bj)
                      THEN apc' = "returned" /\ bi' = bi /\ bj' = bj
                      ELSE /\ apc' = apc
                           /\ bi' = IF bj = Len(questions) THEN bi + 1 ELSE bi
                           /\ bj' = IF bj = Len(questions) THEN 1 ELSE bj + 1
    /\ UNCHANGED <<amode, papers, questions, modelKey, environment, repertoire,
                   resolverVars, threadVars, storeVars, processVars>>

-----------------------------------------------------------------------------
(* Inputs of the analyzer: papers, questions, model keys, configurations   *)
(* and what the LLM backend answers.                                       *)

PaperA == [arxiv_id |-> "1706.03762v5", title |-> "Attention Is All You Need"]
PaperA2 == [arxiv_id |-> "1706.03762v5", title |-> "Attention"]
PaperB == [arxiv_id |-> "2101.00001v1", title |-> "Deep Nets",
           abstract |-> "We train deep nets."]
PaperNoId == [title |-> "Untracked"]
PaperNoTitle == [arxiv_id |-> "2101.00002v1"]
PaperDicts == {PaperA, PaperA2, PaperB, PaperNoId, PaperNoTitle}

Question1 == "Does it use attention?"
Question2 == "Is it about vision?"
Question1Or2 == {Question1, Question2}
QuestionLists == { <<>>, <<Question1>>, <<Question1, Question2>>,
                   <<Question1, Question1>> }

ModelKeys == {"gpt-4o-mini", "claude-3-5-haiku", "llama-3"}

\* os.environ, the loaded configuration and which client packages were imported
Environments ==
    { [ environ |-> [PAPER_LOUPE_OPENAI_API_KEY |-> "sk-env-openai",
                     PAPER_LOUPE_ANTHROPIC_API_KEY |-> "sk-env-anthropic"],
        config |-> EmptyDict,
        OPENAI_AVAILABLE |-> TRUE, ANTHROPIC_AVAILABLE |-> TRUE ],
      [ environ |-> EmptyDict,
        config |-> [api_keys |-> [openai |-> "sk-cfg-openai"]],
        OPENAI_AVAILABLE |-> TRUE, ANTHROPIC_AVAILABLE |-> TRUE ],
      [ environ |-> [PAPER_LOUPE_OPENAI_API_KEY |-> ""],
        config |-> [api_keys |-> [openai |-> "", anthropic |-> "sk-cfg-anthropic"]],
        OPENAI_AVAILABLE |-> TRUE, ANTHROPIC_AVAILABLE |-> FALSE ] }

RespScore8 == <<"<", "e", "x", "p", "l", "a", "n", "a", "t", "i", "o", "n", ">",
        "\n", "o", "k", "\n", "<", "/", "e", "x", "p", "l", "a", "n", "a",
        "t", "i", "o", "n", ">", "\n", "<", "s", "c", "o", "r", "e", ">",
        "8", "<", "/", "s", "c", "o", "r", "e", ">">>
RespScore0 == <<"<", "e", "x", "p", "l", "a", "n", "a", "t", "i", "o", "n", ">", "n",
        "o", "<", "/", "e", "x", "p", "l", "a", "n", "a", "t", "i", "o", "n",
        ">", "<", "s", "c", "o", "r", "e", ">", "0", "<", "/", "s", "c", "o",
        "r", "e", ">">>
RespScore10 == <<"<", "e", "x", "p", "l", "a", "n", "a", "t", "i", "o", "n", ">", "y",
        "e", "s", "<", "/", "e", "x", "p", "l", "a", "n", "a", "t", "i", "o",
        "n", ">", "<", "s", "c", "o", "r", "e", ">", " ", "1", "0", " ", "<",
        "/", "s", "c", "o", "r", "e", ">">>
RespScore15 == <<"<", "e", "x", "p", "l", "a", "n", "a", "t", "i", "o", "n", ">", "o",
        "k", "<", "/", "e", "x", "p", "l", "a", "n", "a", "t", "i", "o", "n",
        ">", "<", "s", "c", "o", "r", "e", ">", "1", "5", "<", "/", "s", "c",
        "o", "r", "e", ">">>
RespScoreMinus3 == <<"<", "e", "x", "p", "l", "a", "n", "a", "t", "i", "o", "n", ">", "o",
        "k", "<", "/", "e", "x", "p", "l", "a", "n", "a", "t", "i", "o", "n",
        ">", "<", "s", "c", "o", "r", "e", ">", "-", "3", "<", "/", "s", "c",
        "o", "r", "e", ">">>
RespScore7p5 == <<"<", "e", "x", "p", "l", "a", "n", "a", "t", "i", "o", "n", ">", "o",
        "k", "<", "/", "e", "x", "p", "l", "a", "n", "a", "t", "i", "o", "n",
        ">", "<", "s", "c", "o", "r", "e", ">", "7", ".", "5", "<", "/", "s",
        "c", "o", "r", "e", ">">>
RespScoreNaN == <<"<", "e", "x", "p", "l", "a", "n", "a", "t", "i", "o", "n", ">", "o",
        "k", "<", "/", "e", "x", "p", "l", "a", "n", "a", "t", "i", "o", "n",
        ">", "<", "s", "c", "o", "r", "e", ">", "n", "a", "n", "<", "/", "s",
        "c", "o", "r", "e", ">">>
RespScoreInf == <<"<", "e", "x", "p", "l", "a", "n", "a", "t", "i", "o", "n", ">", "o",
        "k", "<", "/", "e", "x", "p", "l", "a", "n", "a", "t", "i", "o", "n",
        ">", "<", "s", "c", "o", "r", "e", ">", "i", "n", "f", "<", "/", "s",
        "c", "o", "r", "e", ">">>
RespScoreWord == <<"<", "e", "x", "p", "l", "a", "n", "a", "t", "i", "o", "n", ">", "o",
        "k", "<", "/", "e", "x", "p", "l", "a", "n", "a", "t", "i", "o", "n",
        ">", "<", "s", "c", "o", "r", "e", ">", "h", "i", "g", "h", "<", "/",
        "s", "c", "o", "r", "e", ">">>
RespFencedXml == <<"S", "u", "r", "e", ":", "\n", BQ, BQ, BQ, "x", "m", "l", "\n", "<",
        "e", "x", "p", "l", "a", "n", "a", "t", "i", "o", "n", ">", "o", "k",
        "<", "/", "e", "x", "p", "l", "a", "n", "a", "t", "i", "o", "n", ">",
        "<", "s", "c", "o", "r", "e", ">", "9", "<", "/", "s", "c", "o", "r",
        "e", ">", "\n", BQ, BQ, BQ>>
RespFenced == <<BQ, BQ, BQ, "\n", "<", "e", "x", "p", "l", "a", "n", "a", "t", "i",
        "o", "n", ">", "o", "k", "<", "/", "e", "x", "p", "l", "a", "n", "a",
        "t", "i", "o", "n", ">", "<", "s", "c", "o", "r", "e", ">", "4", "<",
        "/", "s", "c", "o", "r", "e", ">", "\n", BQ, BQ, BQ>>
RespNoTags == <<"R", "e", "l", "e", "v", "a", "n", "t", ",", " ", "8", "/", "1", "0",
        ".">>
RespEmpty == <<>>

\* responses longer than the prefix the fallback quotes: one without any tag, and
\* one whose score block holds a sentence instead of a number
RespLongNoTags == <<"T", "h", "i", "s", " ", "p", "a", "p", "e", "r", " ", "s", "t", "u",
        "d", "i", "e", "s", " ", "r", "e", "t", "r", "i", "e", "v", "a", "l",
        "-", "a", "u", "g", "m", "e", "n", "t", "e", "d", " ", "g", "e", "n",
        "e", "r", "a", "t", "i", "o", "n", " ", "f", "o", "r", " ", "q", "u",
        "e", "s", "t", "i", "o", "n", " ", "a", "n", "s", "w", "e", "r", "i",
        "n", "g", " ", "o", "v", "e", "r", " ", "l", "o", "n", "g", " ", "s",
        "c", "i", "e", "n", "t", "i", "f", "i", "c", " ", "d", "o", "c", "u",
        "m", "e", "n", "t", "s", ",", " ", "w", "h", "i", "c", "h", " ", "i",
        "s", " ", "c", "l", "o", "s", "e", " ", "t", "o", " ", "t", "h", "e",
        " ", "q", "u", "e", "s", "t", "i", "o", "n", " ", "a", "s", "k", "e",
        "d", ",", " ", "a", "l", "t", "h", "o", "u", "g", "h", " ", "i", "t",
        "s", " ", "e", "x", "p", "e", "r", "i", "m", "e", "n", "t", "s", " ",
        "c", "o", "v", "e", "r", " ", "a", "n", "o", "t", "h", "e", "r", " ",
        "d", "o", "m", "a", "i", "n", " ", "a", "n", "d", " ", "i", "t", "s",
        " ", "e", "v", "a", "l", "u", "a", "t", "i", "o", "n", " ", "p", "r",
        "o", "t", "o", "c", "o", "l", " ", "d", "i", "f", "f", "e", "r", "s",
        " ", "f", "r", "o", "m", " ", "t", "h", "e", " ", "r", "e", "q", "u",
        "e", "s", "t", "e", "d", " ", "o", "n", "e", ";", " ", "I", " ", "w",
        "o", "u", "l", "d", " ", "r", "a", "t", "e", " ", "i", "t", " ", "7",
        " ", "o", "u", "t", " ", "o", "f", " ", "1", "0">>
RespLongScore == <<"<", "e", "x", "p", "l", "a", "n", "a", "t", "i", "o", "n", ">", "R",
        "e", "l", "e", "v", "a", "n", "t", ".", "<", "/", "e", "x", "p", "l",
        "a", "n", "a", "t", "i", "o", "n", ">", "\n", "<", "s", "c", "o",
        "r", "e", ">", "s", "o", "m", "e", "w", "h", "e", "r", "e", " ", "b",
        "e", "t", "w", "e", "e", "n", " ", "s", "i", "x", " ", "a", "n", "d",
        " ", "e", "i", "g", "h", "t", " ", "d", "e", "p", "e", "n", "d", "i",
        "n", "g", " ", "o", "n", " ", "w", "h", "e", "t", "h", "e", "r", " ",
        "t", "h", "e", " ", "r", "e", "t", "r", "i", "e", "v", "a", "l", " ",
        "c", "o", "m", "p", "o", "n", "e", "n", "t", " ", "c", "o", "u", "n",
        "t", "s", " ", "a", "s", " ", "p", "a", "r", "t", " ", "o", "f", " ",
        "t", "h", "e", " ", "m", "e", "t", "h", "o", "d", ",", " ", "b", "e",
        "c", "a", "u", "s", "e", " ", "t", "h", "e", " ", "p", "a", "p", "e",
        "r", " ", "e", "v", "a", "l", "u", "a", "t", "e", "s", " ", "i", "t",
        " ", "o", "n", "l", "y", " ", "i", "n", " ", "t", "h", "e", " ", "a",
        "p", "p", "e", "n", "d", "i", "x", " ", "a", "n", "d", " ", "n", "e",
        "v", "e", "r", " ", "r", "e", "p", "o", "r", "t", "s", " ", "r", "e",
        "s", "u", "l", "t", "s", " ", "f", "o", "r", " ", "t", "h", "e", " ",
        "s", "e", "t", "t", "i", "n", "g", " ", "t", "h", "a", "t", " ", "t",
        "h", "e", " ", "q", "u", "e", "s", "t", "i", "o", "n", " ", "i", "s",
        " ", "a", "b", "o", "u", "t", "<", "/", "s", "c", "o", "r", "e", ">">>

\* a response wrapped in a code fence: the opening fence with or without the xml
\* tag and with or without a newline after it, and a closing fence on its own line
FenceOpenings ==
    { <<BQ, BQ, BQ, "x", "m", "l", "\n">>, <<BQ, BQ, BQ, "x", "m", "l">>,
      <<BQ, BQ, BQ, "\n">>, <<BQ, BQ, BQ>> }
FenceWrappings(r) == { o \o r \o <<"\n", BQ, BQ, BQ>> : o \in FenceOpenings }

\* a response with a single fence marker, before or after its blocks
StrayFence(r) == { <<BQ, BQ, BQ, "\n">> \o r, r \o <<"\n", BQ, BQ, BQ>> }

ResponseTexts ==
    { RespScore8, RespScore0, RespScore10, RespScore15, RespScoreMinus3,
      RespScore7p5, RespScoreNaN, RespScoreInf, RespScoreWord, RespFencedXml,
      RespFenced, RespNoTags, RespEmpty, RespLongNoTags, RespLongScore }
        \cup FenceWrappings(RespScore8) \cup StrayFence(RespScore8)

\* what the backend does with one request: a response (with response.usage, which
\* may be None) or an exception of the client library
Responded(text, usage) == [kind |-> "response", text |-> text, usage |-> usage]
ApiError(message) == [kind |-> "api_error", message |-> message]

Usage == [prompt_tokens |-> 100, completion_tokens |-> 20, total_tokens |-> 120]

AllOutcomes ==
    { Responded(t, Some(Usage)) : t \in ResponseTexts }
        \cup { Responded(RespScore8, None), ApiError("rate limit exceeded") }

BatchRepertoires ==
    { { Responded(RespScore8, Some(Usage)) },
      { Responded(RespScore0, Some(Usage)) },
      { Responded(RespScore10, Some(Usage)) },
      { Responded(RespScore8, Some(Usage)), ApiError("rate limit exceeded") },
      { ApiError("rate limit exceeded") },
      { Responded(RespScore15, Some(Usage)), Responded(RespNoTags, Some(Usage)) } }

\* analyze_relevance or batch_analyze is about to be called
InitAnalyzer ==
    /\ amode \in {"analyze", "batch"}
    /\ IF amode = "analyze"
       THEN /\ papers \in { <<p>> : p \in PaperDicts }
            /\ questions \in { <<Question1>>, <<Question2>> }
            /\ repertoire = AllOutcomes
       ELSE /\ papers \in UNION { [1..n -> PaperDicts] : n \in 0..MaxPapers }
            /\ questions \in QuestionLists
            /\ repertoire \in BatchRepertoires
    /\ modelKey \in ModelKeys
    /\ environment \in Environments
    /\ apc = "start" /\ bi = 0 /\ bj = 0
    /\ results = EmptyDict /\ token_usage = EmptyDict /\ raised = "none"
    /\ nGetProvider = 0 /\ llmCalls = <<>> /\ lastResult = None
    /\ driver = "none" /\ title = <<>> /\ authors = <<>> /\ service = NoService
    /\ pc = "none" /\ calls = <<>> /\ ret = <<>>
    /\ ClockZero
    /\ ThreadsIdle
    /\ ProcessIdle
    /\ StoreIdle

NextAnalyzer ==
    AnalyzeRelevanceCall \/ BatchStart \/ BatchPaperWithoutQuestions \/ BatchStep

SpecAnalyzer == InitAnalyzer /\ [][NextAnalyzer]_vars

-----------------------------------------------------------------------------
(* Properties of the analyzer.                                              *)

\* 0 <= f <= 1 for a float f
InUnitRange(f) == f.kind = "finite" /\ 0 <= f.num /\ f.num <= f.den

\* C2: every assessment the analyzer returns has its relevance_score in [0,1],
\* whatever score token the model response carried.
C2_ScoreInUnitRange ==
    lastResult # None => InUnitRange(lastResult[1]["relevance_score"])

\* the provider analyze_relevance would resolve for the current model and
\* configuration exists
ProviderResolvable ==
    /\ DictGet(SUPPORTED_MODELS, modelKey) # None
    /\ GetProvider(environment, SUPPORTED_MODELS[modelKey]) # None

\* C9: analyze_relevance on a paper lacking arxiv_id or title raises ValueError,
\* whatever the question, configuration and model key, without resolving a
\* provider and without calling the LLM.
C9_MissingFieldFailsFast ==
    (amode = "analyze" /\ apc # "start" /\ MissingField(papers[1]) # "none") =>
        /\ apc = "raised" /\ raised = "ValueError"
        /\ nGetProvider = 0
        /\ llmCalls = <<>>

\* a paper without a title was rejected although the provider was there to be used
C9_Witness ==
    /\ amode = "analyze" /\ apc = "raised"
    /\ MissingField(papers[1]) = "title"
    /\ ProviderResolvable

\* C10: batch_analyze on a list in which any paper lacks arxiv_id or title raises
\* ValueError before any provider is resolved or called, also when valid papers
\* precede the invalid one.
C10_BatchValidatedUpFront ==
    (amode = "batch" /\ apc # "start" /\ FirstInvalid(papers) # 0) =>
        /\ apc = "raised" /\ raised = "ValueError"
        /\ nGetProvider = 0
        /\ llmCalls = <<>>

\* a batch whose second paper is invalid was rejected although its first paper
\* could have been analyzed
C10_Witness ==
    /\ amode = "batch" /\ apc = "raised"
    /\ FirstInvalid(papers) = 2
    /\ questions # <<>>
    /\ ProviderResolvable

-----------------------------------------------------------------------------
(* Properties of batch_analyze.                                            *)

\* batch_analyze has returned or raised
Terminated == apc \in {"returned", "raised"}

\* no element occurs twice in seq
Distinct(seq) == \A i, j \in 1..Len(seq) : i # j => seq[i] # seq[j]

\* every paper has both mandatory fields, and no two papers share an arxiv_id
DistinctValidPapers ==
    /\ FirstInvalid(papers) = 0
    /\ \A i, j \in 1..Len(papers) :
          i # j => papers[i]["arxiv_id"] # papers[j]["arxiv_id"]

\* equality of two floats as numbers
FloatEq(a, b) ==
    /\ a.kind = "finite" /\ b.kind = "finite"
    /\ a.num * b.den = b.num * a.den

\* an assessment that is not flagged as failed (`error` absent counts as false)
NotFailed(a) == IF "error" \in DOMAIN a THEN a["error"] = FALSE ELSE TRUE

\* an assessment flagged as failed, with a zero score
Failed(a) ==
    /\ "error" \in DOMAIN a /\ a["error"] = TRUE
    /\ FloatEq(a["relevance_score"], FloatZero)

\* the conforming responses of the model, with the integer score each carries
ConformingScores == { <<RespScore0, 0>>, <<RespScore8, 8>>, <<RespScore10, 10>> }

\* results holds exactly one assessment for every (paper, question) pair
OneAssessmentPerPair ==
    /\ DOMAIN results = { papers[i]["arxiv_id"] : i \in 1..Len(papers) }
    /\ \A id \in DOMAIN results :
          DOMAIN results[id] = { questions[j] : j \in 1..Len(questions) }

\* C11: batch_analyze over papers with distinct ids and distinct questions, with a
\* provider that always answers the conforming response carrying score s, returns
\* |papers| * |questions| assessments, each with relevance_score s/10 and no error.
C11_BatchYieldsAllAssessments ==
    \A cs \in ConformingScores :
        ( /\ amode = "batch" /\ Terminated
          /\ repertoire = { Responded(cs[1], Some(Usage)) }
          /\ DistinctValidPapers /\ Distinct(questions)
          /\ ProviderResolvable ) =>
            /\ apc = "returned"
            /\ OneAssessmentPerPair
            /\ \A id \in DOMAIN results : \A q \in DOMAIN results[id] :
                  /\ FloatEq(results[id][q]["relevance_score"], FloatOf(cs[2], 10))
                  /\ NotFailed(results[id][q])

\* OPENAI_AVAILABLE / ANTHROPIC_AVAILABLE for a backend family
LibraryAvailable(env, provider_name) ==
    IF provider_name = "openai" THEN env.OPENAI_AVAILABLE ELSE env.ANTHROPIC_AVAILABLE

\* the model is supported, but there is no credential for its backend family or the
\* family's client package is not installed
ProviderUnavailable ==
    IF DictGet(SUPPORTED_MODELS, modelKey) = None THEN FALSE
    ELSE \/ ~Truthy(GetApiKey(environment, SUPPORTED_MODELS[modelKey].provider))
         \/ ~LibraryAvailable(environment, SUPPORTED_MODELS[modelKey].provider)

\* every assessment in results is a failed one
AllResultsFailed ==
    \A id \in DOMAIN results : \A q \in DOMAIN results[id] : Failed(results[id][q])

\* C12: when the provider of the model's backend family is unavailable,
\* analyze_relevance makes no LLM call and returns a failed assessment (error true,
\* score 0, a diagnostic explanation) instead of raising, and batch_analyze is not
\* aborted: it returns a failed assessment for every (paper, question) pair.
C12_UnavailableProviderFailsSoftly ==
    ProviderUnavailable =>
        /\ llmCalls = <<>>
        /\ (amode = "analyze" /\ apc # "start" /\ MissingField(papers[1]) = "none") =>
              /\ apc = "returned" /\ raised = "none"
              /\ Failed(lastResult[1])
              /\ lastResult[1]["explanation"] =
                    <<"Error: Failed to initialize ",
                      SUPPORTED_MODELS[modelKey].provider, " provider.">>
        /\ (amode = "batch" /\ apc # "start" /\ FirstInvalid(papers) = 0) =>
              /\ apc # "raised" /\ raised = "none"
              /\ AllResultsFailed
              /\ apc = "returned" => OneAssessmentPerPair

\* a batch of two papers was completed although the client package of the model's
\* backend family is not installed (a credential is configured)
C12_Witness ==
    /\ amode = "batch" /\ apc = "returned"
    /\ ProviderUnavailable
    /\ Truthy(GetApiKey(environment, SUPPORTED_MODELS[modelKey].provider))
    /\ Len(papers) = 2 /\ Len(questions) = 2

\* the text of the LLMError a provider class raises for a failed request
LLMErrorText(provider_name, message) ==
    IF provider_name = "openai" THEN <<"OpenAI API error: ", message>>
    ELSE <<"Anthropic API error: ", message>>

\* this step called provider.analyze and the backend failed the request
BackendFailedInStep ==
    /\ Len(llmCalls') = Len(llmCalls) + 1
    /\ llmCalls'[Len(llmCalls')].outcome.kind = "api_error"

SharesRun(s, text, n) ==
    \E i \in 1..(Len(text) - n + 1) : \E k \in 1..(Len(s) - n + 1) :
        \A d \in 0..(n - 1) : text[i + d] = s[k + d]

\* analyze_relevance returned the parser's fallback for the latest response
ParseFailed ==
    /\ amode = "analyze" /\ apc = "returned" /\ llmCalls # <<>>
    /\ "parse_error" \in DOMAIN lastResult[1]

\* C14: when the response lacks a block or its score is not a number, the parser
\* returns relevance_score 0.0 and an explanation that holds no more of the raw
\* response than its first 200 characters: no run of 201 characters of the
\* response occurs in the explanation, however long the response or its score
\* block is.
C14_FallbackQuotesBoundedPrefix ==
    ParseFailed =>
        /\ FloatEq(lastResult[1]["relevance_score"], FloatZero)
        /\ ~SharesRun(lastResult[1]["explanation"], llmCalls[1].outcome.text,
                      PrefixLen + 1)

\* the provider resolved for the model is the messages-style one, which reports
\* prompt_tokens, completion_tokens and total_tokens as None
ProviderWithoutTokenCounts ==
    /\ ProviderResolvable
    /\ GetProvider(environment, SUPPORTED_MODELS[modelKey])[1].class = "AnthropicProvider"

\* C15: in batch_analyze, calls of a provider that reports no token counts add
\* zero to every field of token_usage, and the batch is not ended by an error.
C15_AbsentTokenCountsAddZero ==
    (amode = "batch" /\ ProviderWithoutTokenCounts /\ FirstInvalid(papers) = 0) =>
        /\ apc # "raised" /\ raised = "none"
        /\ apc # "start" => token_usage = TokenUsageZero

\* the token counts a call contributes: those of response.usage when the
\* chat-completions backend answered, zero for a failed call and for a backend
\* that reports none
NoTokens == [prompt_tokens |-> 0, completion_tokens |-> 0, total_tokens |-> 0]
CallUsage(call) ==
    IF /\ call.outcome.kind = "response"
       /\ SUPPORTED_MODELS[modelKey].provider = "openai"
       /\ call.outcome.usage # None
    THEN call.outcome.usage[1]
    ELSE NoTokens

\* the totals over the first n calls of this run, the cost in the unit of
\* token_usage.estimated_cost
UsageOfCalls[n \in Nat] ==
    IF n = 0 THEN TokenUsageZero
    ELSE LET before == UsageOfCalls[n - 1]
             u == CallUsage(llmCalls[n])
             pricing == SUPPORTED_MODELS[modelKey].pricing
         IN [ total_prompt_tokens |-> before.total_prompt_tokens + u.prompt_tokens,
              total_completion_tokens |->
                  before.total_completion_tokens + u.completion_tokens,
              total_tokens |-> before.total_tokens + u.total_tokens,
              estimated_cost |-> before.estimated_cost
                                   + u.prompt_tokens * pricing.input
                                   + u.completion_tokens * pricing.output ]

\* C16: token_usage is zero when the loops of batch_analyze start, and at every
\* point of the run each total is the sum of that usage over the calls made so far
\* in this run, and estimated_cost the sum over those calls of
\* prompt_tokens * input price + completion_tokens * output price (per million
\* tokens); failed calls add zero.
C16_TotalsAreSumsOverCalls ==
    (amode = "batch" /\ apc \in {"loop", "returned"}) =>
        /\ DictGet(SUPPORTED_MODELS, modelKey) # None
        /\ token_usage = UsageOfCalls[Len(llmCalls)]
        /\ llmCalls = <<>> => token_usage = TokenUsageZero

\* a batch of four calls returned, some of them failed and some answered with
\* token counts
C16_Witness ==
    /\ amode = "batch" /\ apc = "returned"
    /\ Len(llmCalls) = 4
    /\ \E k \in 1..4 : llmCalls[k].outcome.kind = "api_error"
    /\ token_usage.total_tokens > 0
    /\ token_usage.estimated_cost > 0

-----------------------------------------------------------------------------
(* Properties of rank_papers and create_dataframe.                          *)

\* this step is a call of rank_papers that returned a table
RankReturned == stage = "deduplicated" /\ stage' = "ranked"

\* C17: rank_papers returns the rows of its input (each with its score attached),
\* ordered by score descending, and any two rows with equal score keep the
\* relative order they had in the input table.
C17_RankStableDescending ==
    [][ RankReturned =>
          /\ Len(table'.rows) = Len(table.rows)
          /\ \E perm \in Permutations(1..Len(table.rows)) :
                /\ \A i \in 1..Len(table.rows) :
                      table'.rows[i] = WithScore(table.rows[perm[i]], relevance_scores')
                /\ \A i, j \in 1..Len(table.rows) :
                      i < j => ScoreNotAfter(table'.rows[i]["score"],
                                             table'.rows[j]["score"])
                /\ \A i, j \in 1..Len(table.rows) :
                      ( /\ i < j
                        /\ table'.rows[i]["score"] # <<>>
                        /\ table'.rows[i]["score"] = table'.rows[j]["score"] ) =>
                          perm[i] < perm[j]
      ]_vars

\* row i of the ranked table has an entry in the score mapping
HasScoreEntry(i) == table.rows[i]["arxiv_id"] \in DOMAIN relevance_scores

\* C18: in the table rank_papers returns, a row whose arxiv_id has no entry in the
\* score mapping carries a defined score (not NaN) that no scored row is below,
\* and stands after every row that has an entry.
C18_UnscoredRowsCarrySentinel ==
    stage = "ranked" =>
        \A i \in 1..Len(table.rows) :
            ~HasScoreEntry(i) =>
                /\ table.rows[i]["score"] # <<>>
                /\ \A j \in 1..Len(table.rows) :
                      HasScoreEntry(j) =>
                          /\ j < i
                          /\ table.rows[j]["score"][1] >= table.rows[i]["score"][1]

\* create_dataframe has been called on records
Constructed == stage \notin {"input", "none"}

\* some record has no title or no authors
SomeRecordLacksField ==
    \E i \in 1..Len(records) : \E field \in RequiredFields :
        field \notin DOMAIN records[i]

\* C19: if any record lacks title or authors, create_dataframe raises ValueError;
\* a table is returned only when every record carries both fields.
C19_RecordLackingFieldFailsConstruction ==
    (Constructed /\ SomeRecordLacksField) =>
        stage = "raised" /\ storeErr = "ValueError"

\* C20: create_dataframe on an empty list of papers returns a table with zero rows
\* and raises nothing.
C20_EmptyListGivesEmptyTable ==
    (Constructed /\ records = <<>>) =>
        /\ stage # "raised" /\ storeErr = "none"
        /\ table.rows = <<>>

-----------------------------------------------------------------------------
(* Properties of the strategy-3 query.                                      *)

\* s.split(" "): the fields between single spaces, empty fields kept
RECURSIVE FieldsLoop(_, _, _)
FieldsLoop(s, cur, acc) ==
    IF s = <<>> THEN Append(acc, cur)
    ELSE IF Head(s) = " " THEN FieldsLoop(Tail(s), <<>>, Append(acc, cur))
    ELSE FieldsLoop(Tail(s), Append(cur, Head(s)), acc)
Fields(s) == FieldsLoop(s, <<>>, <<>>)

\* the family name and the phrase of a query `author:<name> AND "<phrase>"`
FamilyNameIn(query) ==
    RegexGroup[query, <<"a", "u", "t", "h", "o", "r", ":">>,
               <<" ", "A", "N", "D", " ", "\"">>][1]
PhraseIn(query) ==
    SubSeq(query, Find[query, <<" ", "A", "N", "D", " ", "\"">>] + 7, Len(query) - 1)

\* search_with_fallback has sent its third query
Strategy3Sent == driver = "resolve" /\ Len(calls) = 3

\* C29: a strategy-3 query has a non-empty family name and a phrase of one or two
\* title tokens, each non-empty after punctuation stripping and none a stop-word,
\* for every title and authors list the pipeline can pass (an authors list holding
\* one empty string, a title with punctuation-only words).
C29_Strategy3QueryWellFormed ==
    Strategy3Sent =>
        /\ FamilyNameIn(calls[3].query) # <<>>
        /\ Len(Fields(PhraseIn(calls[3].query))) \in {1, 2}
        /\ \A k \in 1..Len(Fields(PhraseIn(calls[3].query))) :
              /\ Fields(PhraseIn(calls[3].query))[k] # <<>>
              /\ Lower(Fields(PhraseIn(calls[3].query))[k]) \notin StopWords

-----------------------------------------------------------------------------
(* Properties of save_dataframe, load_dataframe and deduplicate_papers.     *)

\* call k + 1 is a load_dataframe of the path call k saved a table to
SaveThenLoad(k) ==
    /\ k + 1 <= Len(fileOps)
    /\ fileOps[k].op = "save" /\ fileOps[k + 1].op = "load"
    /\ fileOps[k + 1].path = fileOps[k].path

\* the table loaded has the rows of df, with identical values in df's columns
SameRowsAndValues(loaded_df, df) ==
    /\ Len(loaded_df.rows) = Len(df.rows)
    /\ df.columns \subseteq loaded_df.columns
    /\ \A i \in 1..Len(df.rows) : \A c \in df.columns :
          loaded_df.rows[i][c] = df.rows[i][c]

NothingSavedAt(k) ==
    \A h \in 1..(k - 1) :
        (fileOps[h].op = "save" /\ fileOps[h].path = fileOps[k].path) =>
            ~fileOps[h].result

\* C24: load_dataframe of a path at which no file exists returns None, whatever
\* was saved to other paths before.
C24_LoadMissingPathGivesNone ==
    \A k \in 1..Len(fileOps) :
        (fileOps[k].op = "load" /\ NothingSavedAt(k)) => fileOps[k].result = None

\* a table was saved to one path and the other path was loaded
C24_Witness ==
    /\ Len(fileOps) = 2
    /\ fileOps[1].op = "save" /\ fileOps[1].result
    /\ fileOps[2].op = "load" /\ fileOps[2].path # fileOps[1].path
    /\ fileOps[2].result = None

\* C25: deduplicate_papers is idempotent: applied to the table it returned, it
\* returns that table again.
C25_DeduplicateIdempotent ==
    [][ (stage = "built" /\ stage' = "deduplicated") =>
           /\ table' = DeduplicatePapersResult(table)
           /\ DeduplicatePapersResult(table') = table'
      ]_vars

\* deduplicate_papers returned a table in which two rows share an arxiv_id
C25_Witness ==
    /\ stage = "deduplicated"
    /\ Len(table.rows) = 2
    /\ "arxiv_id" \in table.columns
    /\ table.rows[1]["arxiv_id"] = table.rows[2]["arxiv_id"]

-----------------------------------------------------------------------------
(* Further properties of the analyzer.                                      *)

\* the model key is not in the registry
UnknownModel == DictGet(SUPPORTED_MODELS, modelKey) = None

\* C22: with an unknown model key no provider is resolved and no LLM call is made;
\* analyze_relevance returns a failed assessment (error true, score 0), and the
\* condition ends nothing beyond that call: a batch over valid papers is not
\* ended by an exception.
C22_UnknownModelFailsThatCallOnly ==
    UnknownModel =>
        /\ nGetProvider = 0 /\ llmCalls = <<>>
        /\ (amode = "analyze" /\ apc # "start" /\ MissingField(papers[1]) = "none") =>
              /\ apc = "returned" /\ raised = "none"
              /\ Failed(lastResult[1])
        /\ (amode = "batch" /\ FirstInvalid(papers) = 0) =>
              apc # "raised" /\ raised = "none"

\* the provider calls made so far are those of the first pairs of the
\* cross-product, papers first and questions second
CallsInLoopOrder ==
    \A k \in 1..Len(llmCalls) :
        /\ llmCalls[k].paper = ((k - 1) \div Len(questions)) + 1
        /\ llmCalls[k].question = ((k - 1) % Len(questions)) + 1

\* C26: within batch_analyze the provider calls are issued in the order
\* papers-then-questions of the input sequences, one for every pair of the
\* cross-product, and the batch terminates after exactly |papers| * |questions|
\* calls.
C26_CrossProductInOrder ==
    (amode = "batch" /\ FirstInvalid(papers) = 0 /\ ProviderResolvable) =>
        /\ CallsInLoopOrder
        /\ Terminated => Len(llmCalls) = Len(papers) * Len(questions)

\* the (paper_id, question) keys of the mapping batch_analyze returns
ResultKeys ==
    { kq \in (DOMAIN results) \X Question1Or2 : kq[2] \in DOMAIN results[kq[1]] }

\* the total_tokens an assessment reports in its metadata (0 when it reports none)
AssessmentTokens(a) ==
    IF "metadata" \notin DOMAIN a THEN 0
    ELSE IF "total_tokens" \notin DOMAIN a["metadata"] THEN 0
    ELSE IF a["metadata"]["total_tokens"] = None THEN 0
    ELSE a["metadata"]["total_tokens"][1]

\* the sum of AssessmentTokens over a set of keys of results
RECURSIVE TokensOf(_)
TokensOf(keys) ==
    IF keys = {} THEN 0
    ELSE LET kq == CHOOSE x \in keys : TRUE IN
         AssessmentTokens(results[kq[1]][kq[2]]) + TokensOf(keys \ {kq})

\* C30: the mapping batch_analyze returns holds one assessment for every call
\* made, and the usage of the assessments in it adds up to the returned totals,
\* also when a question is repeated or two papers share an arxiv_id.
C30_MappingAccountsForEveryCall ==
    (amode = "batch" /\ apc = "returned") =>
        /\ Cardinality(ResultKeys) = Len(papers) * Len(questions)
        /\ TokensOf(ResultKeys) = token_usage.total_tokens

\* the error flag of an assessment (an absent flag reads as false)
ErrorFlag(a) == "error" \in DOMAIN a /\ a["error"] = TRUE

\* the provider raised LLMError for the latest call
TransportError ==
    /\ llmCalls # <<>>
    /\ \/ llmCalls[Len(llmCalls)].outcome.kind = "api_error"
       \/ /\ llmCalls[Len(llmCalls)].outcome.kind = "response"
          /\ SUPPORTED_MODELS[modelKey].provider = "openai"
          /\ llmCalls[Len(llmCalls)].outcome.usage = None

\* C27: an assessment returned by analyze_relevance has its error flag true
\* exactly when the call ended in a recoverable failure (provider unavailable,
\* transport error, response parse failure); a parse failure gives error true and
\* relevance_score 0.
C27_ErrorFlagIffRecoverableFailure ==
    (amode = "analyze" /\ apc = "returned" /\ ~UnknownModel) =>
        /\ ErrorFlag(lastResult[1]) <=>
              (ProviderUnavailable \/ TransportError \/ ParseFailed)
        /\ ParseFailed => Failed(lastResult[1])

\* analyze_relevance returned an assessment for a response whose text is t
ParsedFrom(t) ==
    /\ amode = "analyze" /\ apc = "returned" /\ llmCalls # <<>>
    /\ llmCalls[1].outcome.kind = "response"
    /\ llmCalls[1].outcome.text = t
    /\ ~TransportError

\* the assessment has the score and the explanation parsed from r
SameParseAs(a, r) ==
    /\ a["relevance_score"] = ParseRelevanceResponse[r]["relevance_score"]
    /\ a["explanation"] = ParseRelevanceResponse[r]["explanation"]

\* C28: a conforming response wrapped in a code fence (with or without the xml
\* tag, with or without a newline after the opening fence) is parsed to the same
\* relevance_score and explanation as the response itself, and so is a conforming
\* response with a single stray fence marker.
C28_FenceDoesNotChangeParse ==
    \A t \in FenceWrappings(RespScore8) \cup StrayFence(RespScore8) :
        ParsedFrom(t) => SameParseAs(lastResult[1], RespScore8)

-----------------------------------------------------------------------------
(* cli.py: the process command, from the parsed emails to the ranked table. *)

MaxRawPapers == 2

\* the dictionaries parse_email builds: a title and an authors entry only for
\* the elements found in the email
RawWithBoth == [title |-> "Deep Nets", authors |-> "J Smith, A Lee"]
RawWithoutAuthors == [title |-> "Attention Is All You Need"]
RawWithoutTitle == [authors |-> "J Smith"]
RawPaperDicts == {RawWithBoth, RawWithoutAuthors, RawWithoutTitle}

\* the fields of the arXiv record process() copies into the paper
ArxivSummary(id) == IF id = "1706.03762v5" THEN "Attention layers only."
                    ELSE "We train deep nets."
ArxivCategories(id) == IF id = "1706.03762v5" THEN "['cs.CL', 'cs.LG']" ELSE "['cs.LG']"
ArxivPdfUrl(id) == IF id = "1706.03762v5" THEN "http://arxiv.org/pdf/1706.03762v5"
                   ELSE "http://arxiv.org/pdf/2101.00001v1"

\* the paper after `paper["abstract"] = ...` to `paper["pdf_url"] = ...`, for the
\* first of the results
EnrichedPaper(paper, arxiv_results) ==
    LET arxiv_paper == arxiv_results[1] IN
    DictSet(DictSet(DictSet(DictSet(paper,
        "abstract", ArxivSummary(arxiv_paper)),
        "arxiv_id", arxiv_paper),
        "categories", ArxivCategories(arxiv_paper)),
        "pdf_url", ArxivPdfUrl(arxiv_paper))

\* the research questions, the model and the configuration process() is given,
\* and what the backend does during the run
ProcessQuestionLists == { <<Question1>>, <<Question1, Question2>> }
ProcessModels == {"gpt-4o-mini", "claude-3-5-haiku"}
ProcessEnvironment ==
    [ environ |-> [PAPER_LOUPE_OPENAI_API_KEY |-> "sk-env-openai",
                   PAPER_LOUPE_ANTHROPIC_API_KEY |-> "sk-env-anthropic"],
      config |-> EmptyDict,
      OPENAI_AVAILABLE |-> TRUE, ANTHROPIC_AVAILABLE |-> TRUE ]
BackendAnswers == { Responded(RespScore8, Some(Usage)) }
BackendFails == { ApiError("rate limit exceeded") }

\* one pass of `for paper in raw_papers`
ProcessLookup ==
    /\ ppc = "lookup" /\ pi < Len(raw_papers)
    /\ LET paper == raw_papers[pi + 1]
           arxiv_results == lookup[pi + 1]
       IN
       IF arxiv_results # <<>>
       THEN /\ enriched_papers' = Append(enriched_papers,
                                         EnrichedPaper(paper, arxiv_results))
            /\ not_found_count' = not_found_count
       ELSE /\ not_found_count' = not_found_count + 1
            /\ enriched_papers' = enriched_papers
    /\ pi' = pi + 1
    /\ UNCHANGED <<raw_papers, lookup, ppc, resolverVars, threadVars, storeVars,
                   analyzerVars>>

\* the loop is over: enriched_papers is handed to create_dataframe
ProcessLoopDone ==
    /\ ppc = "lookup" /\ pi = Len(raw_papers)
    /\ ppc' = "store"
    /\ records' = enriched_papers
    /\ stage' = "input"
    /\ UNCHANGED <<table, relevance_scores, files, fileOps, storeErr,
                   raw_papers, lookup, pi, enriched_papers, not_found_count,
                   resolverVars, threadVars, analyzerVars>>

\* batch_analyze(papers_df.to_dict("records"), research_questions, config_data, model)
ProcessAnalyze ==
    /\ ppc = "store" /\ stage = "deduplicated"
    /\ ppc' = "analyze"
    /\ papers' = table.rows
    /\ amode' = "batch" /\ apc' = "start"
    /\ UNCHANGED <<questions, modelKey, environment, repertoire, bi, bj, results,
                   token_usage, raised, nGetProvider, llmCalls, lastResult,
                   raw_papers, lookup, pi, enriched_papers, not_found_count,
                   resolverVars, threadVars, storeVars>>

\* a relevance score in hundredths
Hundredths(f) == (f.num * 100) \div f.den

\* sum(scores) for the assessments of one paper, in hundredths
RECURSIVE SumOfScores(_, _)
SumOfScores(question_scores, qs) ==
    IF qs = {} THEN 0
    ELSE LET q == CHOOSE x \in qs : TRUE IN
         Hundredths(question_scores[q]["relevance_score"])
           + SumOfScores(question_scores, qs \ {q})

\* relevance_scores[paper_id] = sum(scores) / len(scores) if scores else 0
AverageScores(analysis_results) ==
    [ paper_id \in DOMAIN analysis_results |->
        LET question_scores == analysis_results[paper_id]
            n == Cardinality(DOMAIN question_scores)
        IN IF n = 0 THEN 0
           ELSE SumOfScores(question_scores, DOMAIN question_scores) \div n ]

\* rank_papers(papers_df, relevance_scores) once batch_analyze has returned
ProcessRank ==
    /\ ppc = "analyze" /\ apc = "returned"
    /\ ppc' = "rank"
    /\ RankPapersWith(AverageScores(results))
    /\ UNCHANGED <<records, files, fileOps,
                   raw_papers, lookup, pi, enriched_papers, not_found_count,
                   resolverVars, threadVars, analyzerVars>>

\* `if output: save_dataframe(ranked_df, output_path)`, then the table is shown
ProcessSave ==
    /\ ppc = "rank" /\ stage = "ranked"
    /\ ppc' = "done"
    /\ \E output \in {None} \cup { Some(q) : q \in Paths } : \E writable \in BOOLEAN :
        IF output = None
        THEN UNCHANGED <<files, fileOps>>
        ELSE \E r \in { SaveDataframeResult(table, output[1], files, writable) } :
             /\ files' = r.files
             /\ fileOps' = Append(fileOps, [op |-> "save", path |-> output[1],
                                            df |-> table, result |-> r.ok])
    /\ UNCHANGED <<stage, records, table, relevance_scores, storeErr,
                   raw_papers, lookup, pi, enriched_papers, not_found_count,
                   resolverVars, threadVars, analyzerVars>>

InitProcess ==
    /\ \E n \in 1..MaxRawPapers :
        /\ raw_papers \in [1..n -> RawPaperDicts]
        /\ lookup \in [1..n -> ResultLists]
    /\ pi = 0 /\ enriched_papers = <<>> /\ not_found_count = 0 /\ ppc = "lookup"
    /\ amode = "none" /\ papers = <<>> /\ apc = "none" /\ bi = 0 /\ bj = 0
    /\ questions \in ProcessQuestionLists
    /\ modelKey \in ProcessModels
    /\ environment = ProcessEnvironment
    /\ repertoire \in {BackendAnswers, BackendFails}
    /\ results = EmptyDict /\ token_usage = EmptyDict /\ raised = "none"
    /\ nGetProvider = 0 /\ llmCalls = <<>> /\ lastResult = None
    /\ driver = "none" /\ title = <<>> /\ authors = <<>> /\ service = NoService
    /\ pc = "none" /\ calls = <<>> /\ ret = <<>>
    /\ ClockZero
    /\ ThreadsIdle
    /\ StoreIdle

NextProcess ==
    \/ ProcessLookup
    \/ ProcessLoopDone
    \/ CreateDataframe
    \/ DeduplicatePapers
    \/ ProcessAnalyze
    \/ BatchStart
    \/ BatchStep
    \/ ProcessRank
    \/ ProcessSave

SpecProcess == InitProcess /\ [][NextProcess]_vars

\* the raw papers among the first n for which the lookup returned something, each
\* with the arXiv fields of the first result
RECURSIVE ResolvedPapers(_)
ResolvedPapers(n) ==
    IF n = 0 THEN <<>>
    ELSE IF lookup[n] # <<>>
    THEN Append(ResolvedPapers(n - 1), EnrichedPaper(raw_papers[n], lookup[n]))
    ELSE ResolvedPapers(n - 1)

\* the lookup loop of a process run has finished
LookupFinished == ppc \in {"store", "analyze", "rank", "done"}

\* nothing but unresolved papers can trouble the run: every email entry had a
\* title and authors, and the model is one whose backend answers every call
NothingElseWrong ==
    /\ \A i \in 1..Len(raw_papers) : RequiredFields \subseteq DOMAIN raw_papers[i]
    /\ modelKey = "gpt-4o-mini"
    /\ repertoire = BackendAnswers

\* an exception has left process()
ProcessFault == stage = "raised" \/ apc = "raised"

\* C21: a run in which some or all raw papers resolve to no match goes on without
\* an uncaught fault: the unresolved papers are left out of the enriched set, the
\* resolved ones are kept with the identifier of the first candidate, and the run
\* goes on to store, analysis and ranking, also when every paper is unresolved.
C21_UnresolvedPapersDoNotStopRun ==
    (LookupFinished /\ not_found_count > 0 /\ NothingElseWrong) =>
        /\ enriched_papers = ResolvedPapers(Len(raw_papers))
        /\ \A i \in 1..Len(enriched_papers) :
               \E k \in 1..Len(raw_papers) :
                   /\ lookup[k] # <<>>
                   /\ enriched_papers[i]["arxiv_id"] = lookup[k][1]
        /\ ~ProcessFault

====
